---- MODULE Spec2Model ----
(***************************************************************************)
(* lmtreedb: a tree-structured key/value store over LMDB.                  *)
(*                                                                         *)
(* Strings are sequences of one-character strings, so that Display (join   *)
(* on '/') and AddAssign (split on '/') are computed, not assumed.         *)
(* An Option is a sequence of length at most one: <<>> is None, <<x>> is   *)
(* Some(x).  A Result is <<"ok", value>> or <<"err", kind>>.               *)
(* An rmpv::Value is a tagged tuple: <<"nil">>, <<"int", n>>,              *)
(* <<"f64", tenths>>, <<"str", chars, ev>>, <<"arr", seq of Value>>.           *)
(* An f64 is kept as a whole number of tenths (5.3 is 53).                 *)
(***************************************************************************)
EXTENDS Integers, Sequences, FiniteSets, TLC

VARIABLES
    db,      \* the committed LMDB database: display key -> stored rmpv::Value
    open,    \* number of live Storage handles on the directory
    tx,      \* the write transaction holding LMDB's writer lock, or NoTx
    rd,      \* the read transaction of a running get/children call, or NoRd
    ret,     \* what the last API call returned, until the caller takes it
    last,    \* history: path key -> the typed value of the last committed put
    nw,      \* number of committed write transactions
    rs,      \* the call stack of a running load::<T>(version, val), or NoRs
    ev,      \* the last call of a function that touches no store, or NoEv
    wait,    \* the write call of a second thread at begin_rw_txn, or NoWait
    fb       \* the FileBrowser of the running App, or NoFb

vars == <<db, open, tx, rd, ret, last, nw, rs, ev, wait, fb>>

---------------------------------------------------------------------------
(* Bounds *)

MaxWrites == 3
MaxHandles == 2
\* Deepest stack of load frames followed
MaxFrames == 4
\* Longest string a user types, in characters after an optional "@root"
MaxStr == 3

---------------------------------------------------------------------------
(* Options and Results *)

None == <<>>
Some(x) == <<x>>
Ok(x) == <<"ok", x>>
Err(kind) == <<"err", kind>>
IsOk(r) == r[1] = "ok"

---------------------------------------------------------------------------
(* path.rs *)

Slash == "/"
RootName == <<"@", "r", "o", "o", "t">>

\* Root::default().path()
RootPath == <<RootName>>

RECURSIVE Join(_)
\* Vec<String>::join("/")
Join(p) ==
    IF p = <<>> THEN <<>>
    ELSE IF Len(p) = 1 THEN p[1]
    ELSE p[1] \o <<Slash>> \o Join(Tail(p))

\* impl Display for Path
Display(p) ==
    LET res == Join(p)
    IN  IF res = <<>> THEN <<Slash>> ELSE res

RECURSIVE SplitFrom(_, _)
\* str::split('/'): cur is the segment being read
SplitFrom(s, cur) ==
    IF s = <<>> THEN <<cur>>
    ELSE IF Head(s) = Slash THEN <<cur>> \o SplitFrom(Tail(s), <<>>)
    ELSE SplitFrom(Tail(s), Append(cur, Head(s)))

Split(s) == SplitFrom(s, <<>>)

\* add_assign that pushes rhs as one component, unsplit
AddAssignWhole(p, rhs) == Append(p, rhs)

\* add_assign that pushes only the segments that are not empty
AddAssignSkipsEmpty(p, rhs) == p \o SelectSeq(Split(rhs), LAMBDA x : x # <<>>)

\* impl AddAssign<T: Display> for Path; rhs is rhs.to_string()
AddAssign(p, rhs) == p \o Split(rhs)

\* impl Add<T: Display> for Path
Add(p, rhs) == AddAssign(p, rhs)

\* pop that finds no name in a path of one component
PopNoRootName(p) ==
    IF Len(p) <= 1 THEN <<<<>>, None>>
    ELSE <<SubSeq(p, 1, Len(p) - 1), Some(p[Len(p)])>>

\* pop that returns the name and leaves it in the parent
PopKeepsLast(p) ==
    IF p = <<>> THEN <<p, None>>
    ELSE <<p, Some(p[Len(p)])>>

\* Path::pop: (parent, Option<name>)
Pop(p) ==
    IF p = <<>> THEN <<p, None>>
    ELSE <<SubSeq(p, 1, Len(p) - 1), Some(p[Len(p)])>>

---------------------------------------------------------------------------
(* schema.rs and the schema types of lib.rs (tests) and wrappers.rs *)

\* std::u64::MAX, scaled down: the model's u64 is 0..U64Max
U64Max == 7

\* VERSION, PrevVersion and NextVersion of every declared schema type: the
\* built-in unit, Test1 and Test2 of lib.rs, the two wrappers, and as callers'
\* declarations a three-version chain Ver1, Ver2, Ver3 over an i64 (upgrades
\* +1 then *2, downgrades /2 then -1), a type NoSave whose save fails, and
\* two types implemented by hand, without def_schema!'s adjacency checks:
\* Gap3 with VERSION 3 whose PrevVersion is Gap1, with VERSION 1, whose
\* NextVersion is Gap3
SchemaTable ==
    [ NoSchema       |-> [version |-> 0, prev |-> "NoSchema", next |-> "NoSchema"],
      Unit           |-> [version |-> 1, prev |-> "NoSchema", next |-> "NoSchema"],
      Test1          |-> [version |-> 1, prev |-> "NoSchema", next |-> "Test2"],
      Test2          |-> [version |-> 2, prev |-> "Test1",    next |-> "NoSchema"],
      Ver1           |-> [version |-> 1, prev |-> "NoSchema", next |-> "Ver2"],
      Ver2           |-> [version |-> 2, prev |-> "Ver1",     next |-> "Ver3"],
      Ver3           |-> [version |-> 3, prev |-> "Ver2",     next |-> "NoSchema"],
      NoSave         |-> [version |-> 1, prev |-> "NoSchema", next |-> "NoSchema"],
      Gap1           |-> [version |-> 1, prev |-> "NoSchema", next |-> "Gap3"],
      Gap3           |-> [version |-> 3, prev |-> "Gap1",     next |-> "NoSchema"],
      DataWrapperV1  |-> [version |-> 1, prev |-> "NoSchema", next |-> "NoSchema"],
      VersionWrapper |-> [version |-> 1, prev |-> "NoSchema", next |-> "NoSchema"] ]

\* Schema::version
Version(T) == SchemaTable[T].version
PrevVersion(T) == SchemaTable[T].prev
NextVersion(T) == SchemaTable[T].next

\* `x as i64` on an f64 held in tenths: truncation toward zero
F64AsI64(t) == IF t >= 0 THEN t \div 10 ELSE -((-t) \div 10)

\* `x as f64` on an i64
I64AsF64(i) == i * 10

\* Typed values
Unit == [ty |-> "Unit", data |-> 0]
Test1(i) == [ty |-> "Test1", data |-> i]
Test2(t) == [ty |-> "Test2", data |-> t]
Ver(n, i) == [ty |-> IF n = 1 THEN "Ver1" ELSE IF n = 2 THEN "Ver2" ELSE "Ver3", data |-> i]
NoSave == [ty |-> "NoSave", data |-> 0]
DataWrapperV1(c, v, d) == [ty |-> "DataWrapperV1", children |-> c, version |-> v, data |-> d]
VersionWrapper(d) == [ty |-> "VersionWrapper", data |-> d]

\* SchemaUpgrade::upgrade of T on a value of T::PrevVersion
Upgrade(T, val) ==
    CASE T = "Test2" -> Ok(Test2(I64AsF64(val.data)))
      [] T = "Ver2" -> Ok(Ver(2, val.data + 1))
      [] T = "Ver3" -> Ok(Ver(3, val.data * 2))
      [] T = "VersionWrapper" -> Err("VersionWrapper must have only one version")
      [] T = "DataWrapperV1" -> Err("Cannot upgrade, no previous version exists")
      [] T = "NoSchema" -> Err("Version too low, it should not ever exists")
      [] OTHER -> Err("This is a first version, so this method should not be called")

\* SchemaDowngrade::downgrade of T on a value of T::NextVersion
Downgrade(T, val) ==
    CASE T = "Test1" -> Ok(Test1(F64AsI64(val.data)))
      [] T = "Ver2" -> Ok(Ver(2, val.data \div 2))
      [] T = "Ver1" -> Ok(Ver(1, val.data - 1))
      [] T = "VersionWrapper" -> Err("VersionWrapper must have only one version")
      [] T = "DataWrapperV1" -> Err("Cannot downgrade, no next version exists")
      [] T = "NoSchema" -> Err("Version too low, it should not ever exists")
      [] OTHER -> Err("This is a last version, so this method should not be called")

\* All enumerations of a finite set as a sequence without repetition
Orders(S) ==
    {f \in [1..Cardinality(S) -> S] : \A i, j \in 1..Cardinality(S) : f[i] = f[j] => i = j}

Range(f) == {f[i] : i \in DOMAIN f}

\* save that pushes the version before the children
SaveDataWrapperV1VersionFirst(w, ord) ==
    <<"arr", << <<"int", w.version>>,
                <<"arr", [i \in DOMAIN ord |-> <<"str", ord[i]>>]>>,
                w.data >> >>

\* DataWrapperV1::save with the HashSet iterated in the order ord
SaveDataWrapperV1(w, ord) ==
    <<"arr", << <<"arr", [i \in DOMAIN ord |-> <<"str", ord[i]>>]>>,
                <<"int", w.version>>,
                w.data >> >>

RECURSIVE SchemaSave(_)
\* save whose VersionWrapper tag is the stored_version of the envelope inside
SchemaSaveTagsPayload(val) ==
    CASE val.ty = "Unit" -> {Ok(<<"nil">>)}
      [] val.ty = "Test1" -> {Ok(<<"int", val.data>>)}
      [] val.ty = "Test2" -> {Ok(<<"f64", val.data>>)}
      [] val.ty \in {"Ver1", "Ver2", "Ver3"} -> {Ok(<<"int", val.data>>)}
      [] val.ty = "NoSave" -> {Err("SaveError")}
      [] val.ty = "DataWrapperV1" ->
            {Ok(SaveDataWrapperV1(val, ord)) : ord \in Orders(val.children)}
      [] val.ty = "VersionWrapper" ->
            {Ok(<<"arr", << <<"int", val.data.version>>, s[2] >> >>) :
                s \in {x \in SchemaSave(val.data) : IsOk(x)}}
      [] OTHER -> {Err("Version too low, it should not ever exists")}

\* SchemaSerde::save: the Values save may return (a HashSet has no fixed
\* iteration order, so a DataWrapperV1 has one saved form per order)
SchemaSave(val) ==
    CASE val.ty = "Unit" -> {Ok(<<"nil">>)}
      [] val.ty = "Test1" -> {Ok(<<"int", val.data>>)}
      [] val.ty = "Test2" -> {Ok(<<"f64", val.data>>)}
      [] val.ty \in {"Ver1", "Ver2", "Ver3"} -> {Ok(<<"int", val.data>>)}
      [] val.ty = "NoSave" -> {Err("SaveError")}
      [] val.ty = "DataWrapperV1" ->
            {Ok(SaveDataWrapperV1(val, ord)) : ord \in Orders(val.children)}
      [] val.ty = "VersionWrapper" ->
            {Ok(<<"arr", << <<"int", Version(val.data.ty)>>, s[2] >> >>) :
                s \in {x \in SchemaSave(val.data) : IsOk(x)}}
      [] OTHER -> {Err("Version too low, it should not ever exists")}

\* DataWrapperV1::load
LoadDataWrapperV1(val) ==
    IF val[1] # "arr" THEN Err("InvalidFormat")
    ELSE IF Len(val[2]) # 3 THEN Err("InvalidFormat")
    ELSE LET arr == val[2]
         IN  IF arr[1][1] # "arr" THEN Err("InvalidFormat")
             ELSE IF \E i \in DOMAIN arr[1][2] : arr[1][2][i][1] # "str"
                  THEN Err("InvalidFormat")
             ELSE IF arr[2][1] # "int" \/ arr[2][2] < 0 THEN Err("InvalidFormat")
             ELSE Ok(DataWrapperV1({arr[1][2][i][2] : i \in DOMAIN arr[1][2]},
                                   arr[2][2], arr[3]))

RECURSIVE load(_, _, _)
RECURSIVE SchemaLoad(_, _)

\* VersionWrapper::load that rejects a tag other than the version field of
\* the envelope it wraps
LoadVersionWrapperStrict(T, val) ==
    IF val[1] # "arr" THEN Err("InvalidFormat")
    ELSE IF Len(val[2]) # 2 THEN Err("InvalidFormat")
    ELSE LET arr == val[2]
         IN  IF arr[1][1] # "int" \/ arr[1][2] < 0 THEN Err("InvalidFormat")
             ELSE IF arr[2][1] = "arr" /\ Len(arr[2][2]) = 3
                     /\ arr[2][2][2] # arr[1] THEN Err("InvalidFormat")
             ELSE LET data == load(T, arr[1][2], arr[2])
                  IN  IF IsOk(data) THEN Ok(VersionWrapper(data[2])) ELSE data

\* VersionWrapper::load
LoadVersionWrapper(T, val) ==
    IF val[1] # "arr" THEN Err("InvalidFormat")
    ELSE IF Len(val[2]) # 2 THEN Err("InvalidFormat")
    ELSE LET arr == val[2]
         IN  IF arr[1][1] # "int" \/ arr[1][2] < 0 THEN Err("InvalidFormat")
             ELSE LET data == load(T, arr[1][2], arr[2])
                  IN  IF IsOk(data) THEN Ok(VersionWrapper(data[2])) ELSE data

\* SchemaSerde::load of T.  VersionWrapper<T> is written <<"VersionWrapper", T>>.
SchemaLoad(T, val) ==
    CASE T = "Unit" -> IF val = <<"nil">> THEN Ok(Unit) ELSE Err("InvalidFormat")
      [] T = "Test1" -> IF val[1] = "int" THEN Ok(Test1(val[2])) ELSE Err("Unable to load")
      [] T = "Test2" -> IF val[1] = "f64" THEN Ok(Test2(val[2])) ELSE Err("Unable to load")
      [] T \in {"Ver1", "Ver2", "Ver3"} ->
            IF val[1] = "int" THEN Ok([ty |-> T, data |-> val[2]]) ELSE Err("Unable to load")
      [] T = "NoSave" -> Err("Unable to load")
      [] T \in {"Gap1", "Gap3"} ->
            IF val[1] = "int" THEN Ok([ty |-> T, data |-> val[2]]) ELSE Err("Unable to load")
      [] T = "DataWrapperV1" -> LoadDataWrapperV1(val)
      [] T = "VersionWrapper" -> LoadVersionWrapper("DataWrapperV1", val)
      [] OTHER -> Err("Version too low, it should not ever exists")

\* load that asks the neighbour for the neighbour's own version, not the
\* stored one
loadNeighbourVersion(T, version, val) ==
    IF version = Version(T) THEN SchemaLoad(T, val)
    ELSE IF version < Version(T) THEN
        IF Version(PrevVersion(T)) >= Version(T) \/ version = 0
        THEN Err("InvalidSchema")
        ELSE LET down == load(PrevVersion(T), Version(PrevVersion(T)), val)
             IN  IF IsOk(down) THEN Upgrade(T, down[2]) ELSE down
    ELSE
        IF Version(T) >= Version(NextVersion(T)) \/ version = U64Max
        THEN Err("InvalidSchema")
        ELSE LET up == load(NextVersion(T), Version(NextVersion(T)), val)
             IN  IF IsOk(up) THEN Downgrade(T, up[2]) ELSE up

\* lib.rs load::<T>(version, val)
load(T, version, val) ==
    IF version = Version(T) THEN SchemaLoad(T, val)
    ELSE IF version < Version(T) THEN
        IF Version(PrevVersion(T)) >= Version(T) \/ version = 0
        THEN Err("InvalidSchema")
        ELSE LET down == load(PrevVersion(T), version, val)
             IN  IF IsOk(down) THEN Upgrade(T, down[2]) ELSE down
    ELSE
        IF Version(T) >= Version(NextVersion(T)) \/ version = U64Max
        THEN Err("InvalidSchema")
        ELSE LET up == load(NextVersion(T), version, val)
             IN  IF IsOk(up) THEN Downgrade(T, up[2]) ELSE up

---------------------------------------------------------------------------
(* lib.rs: the operations on a transaction's view of the database *)

\* RoTransactionExt::info::<DataWrapperV1>: Result<Option<DataWrapperV1>>
info(view, path) ==
    LET key == Display(path)
    IN  IF key \notin DOMAIN view THEN Ok(None)
        ELSE LET loaded == load("VersionWrapper", 1, view[key])
             IN  IF IsOk(loaded) THEN Ok(Some(loaded[2].data)) ELSE loaded

\* RoTransactionExt::get::<T>: Result<Option<T>>
get(view, T, path) ==
    LET data == info(view, path)
    IN  IF ~IsOk(data) THEN data
        ELSE IF data[2] = None THEN Ok(None)
        ELSE LET value == load(T, data[2][1].version, data[2][1].data)
             IN  IF IsOk(value) THEN Ok(Some(value[2])) ELSE value

\* lmdb::RwTransaction::put: the view with key bound to val
EnginePut(view, key, val) ==
    [k \in DOMAIN view \cup {key} |-> IF k = key THEN val ELSE view[k]]

\* an engine delete that reports success and leaves the key in place
EngineDelKeepsKey(view, key) ==
    IF key \in DOMAIN view THEN Ok(view) ELSE Err("EngineError")

\* lmdb::RwTransaction::del: Err(NotFound) when the key is absent
EngineDel(view, key) ==
    IF key \in DOMAIN view
    THEN Ok([k \in DOMAIN view \ {key} |-> view[k]])
    ELSE Err("EngineError")

\* RwTransactionExt::put_unsafe: the outcomes of saving data and writing it
\* at path; the engine's write may fail (map full, key too long)
put_unsafe(view, path, data) ==
    {IF IsOk(s) THEN Ok(EnginePut(view, Display(path), s[2])) ELSE s :
        s \in SchemaSave(data)}
    \cup {Err("EngineError")}

\* RwTransactionExt::put_unsafe_version
put_unsafe_version(view, path, data) ==
    put_unsafe(view, path, VersionWrapper(data))

\* put_unsafe_wrapped that tags every new envelope with version 1
NewEnvelopeVersionOne(T, payload) == DataWrapperV1({}, 1, payload)

\* put_unsafe_wrapped that leaves the version field of a new envelope unset
NewEnvelopeVersionZero(T, payload) == DataWrapperV1({}, 0, payload)

\* The DataWrapperV1 that put_unsafe_wrapped builds around the saved payload
NewEnvelope(T, payload) == DataWrapperV1({}, Version(T), payload)

\* RwTransactionExt::put_unsafe_wrapped
put_unsafe_wrapped(view, path, data) ==
    UNION {IF IsOk(s)
           THEN put_unsafe_version(view, path, NewEnvelope(data.ty, s[2]))
           ELSE {s} : s \in SchemaSave(data)}

\* put that leaves the parent's children set as it was
InsertChildSkipped(par, name) == par

\* put that writes the parent back with the name and no payload
InsertChildClearsPayload(par, name) ==
    [par EXCEPT !.children = @ \cup {name}, !.data = <<"nil">>]

\* put, new key: par.children.insert(name)
InsertChild(par, name) == [par EXCEPT !.children = @ \cup {name}]

\* overwrite that keeps the stored version of the envelope it replaces
OverwriteKeepsVersion(ex, T, payload) == DataWrapperV1(ex.children, ex.version, payload)

\* overwrite that starts the envelope again with no children
OverwriteDropsChildren(ex, T, payload) == DataWrapperV1({}, Version(T), payload)

\* put, existing key: the DataWrapperV1 written over ex
OverwriteEnvelope(ex, T, payload) == DataWrapperV1(ex.children, Version(T), payload)

\* del that leaves the name in the parent's children set
RemoveChildSkipped(parent, name) == parent

\* del that writes the parent back with no children at all
RemoveChildClearsAll(parent, name) == [parent EXCEPT !.children = {}]

\* del: parent.children.remove(&name)
RemoveChild(parent, name) == [parent EXCEPT !.children = @ \ {name}]

\* del that does not look at the children set
HasChildrenIgnored(inf) == FALSE

\* del: !info.children.is_empty()
HasChildren(inf) == inf.children # {}

\* put that creates the child of an absent parent all the same
WriteParentOrSkip(view, parent_path, parent, name) ==
    IF parent = None THEN {<<"more", view>>}
    ELSE {IF IsOk(w) THEN <<"more", w[2]>> ELSE w :
             w \in put_unsafe_version(view, parent_path, InsertChild(parent[1], name))}

\* put that creates an absent parent as an empty envelope listing the name
WriteParentCreates(view, parent_path, parent, name) ==
    {IF IsOk(w) THEN <<"more", w[2]>> ELSE w :
        w \in put_unsafe_version(view, parent_path,
                 InsertChild(IF parent = None THEN DataWrapperV1({}, 1, <<"nil">>)
                             ELSE parent[1], name))}

\* put, new key: `match parent`, NoParent or the parent written back with name
WriteParent(view, parent_path, parent, name) ==
    IF parent = None THEN {Err("NoParent")}
    ELSE {IF IsOk(w) THEN <<"more", w[2]>> ELSE w :
             w \in put_unsafe_version(view, parent_path, InsertChild(parent[1], name))}

\* RwTransactionExt::put up to its first engine write: Err(kind),
\* <<"more", view>> once the parent envelope is written (new key), or
\* <<"ok", view>> once the envelope is overwritten (existing key)
PutFirst(view, path, data) ==
    LET existing == info(view, path)
    IN  IF ~IsOk(existing) THEN {existing}
        ELSE IF existing[2] = None THEN
            LET parent_path == Pop(path)[1]
                name == Pop(path)[2]
            IN  IF name = None THEN {Err("InvalidPath")}
                ELSE LET parent == info(view, parent_path)
                     IN  IF ~IsOk(parent) THEN {parent}
                         ELSE WriteParent(view, parent_path, parent[2], name[1])
        ELSE
            LET ex == existing[2][1]
            IN  UNION {IF IsOk(s)
                       THEN put_unsafe_version(view, path,
                                OverwriteEnvelope(ex, data.ty, s[2]))
                       ELSE {s} : s \in SchemaSave(data)}

\* RwTransactionExt::put, new key: "And now we can safely put it"
PutSecond(view, path, data) == put_unsafe_wrapped(view, path, data)

\* del that goes on to delete a key whose parent envelope is absent
DelFirstOrphan(view, path) ==
    LET inf == info(view, path)
    IN  IF ~IsOk(inf) THEN {inf}
        ELSE IF inf[2] = None THEN {Err("NotFound")}
        ELSE IF HasChildren(inf[2][1]) THEN {Err("HasChildren")}
        ELSE LET parent_path == Pop(path)[1]
                 name == Pop(path)[2]
             IN  IF name = None THEN {Err("InvalidPath")}
                 ELSE LET parent == info(view, parent_path)
                      IN  IF ~IsOk(parent) THEN {parent}
                          ELSE IF parent[2] = None THEN {<<"more", view>>}
                          ELSE LET par == RemoveChild(parent[2][1], name[1])
                               IN  {IF IsOk(w) THEN <<"more", w[2]>> ELSE w :
                                       w \in put_unsafe_version(view, parent_path, par)}

\* del that leaves an absent path to the engine delete
DelFirstAbsentPasses(view, path) ==
    LET inf == info(view, path)
    IN  IF ~IsOk(inf) THEN {inf}
        ELSE IF inf[2] = None THEN {<<"more", view>>}
        ELSE IF HasChildren(inf[2][1]) THEN {Err("HasChildren")}
        ELSE LET parent_path == Pop(path)[1]
                 name == Pop(path)[2]
             IN  IF name = None THEN {Err("InvalidPath")}
                 ELSE LET parent == info(view, parent_path)
                      IN  IF ~IsOk(parent) THEN {parent}
                          ELSE IF parent[2] = None THEN {Err("Corruption")}
                          ELSE LET par == RemoveChild(parent[2][1], name[1])
                               IN  {IF IsOk(w) THEN <<"more", w[2]>> ELSE w :
                                       w \in put_unsafe_version(view, parent_path, par)}

\* del that deletes the key first and leaves the parent for later
DelFirstEngineFirst(view, path) ==
    LET inf == info(view, path)
    IN  IF ~IsOk(inf) THEN {inf}
        ELSE IF inf[2] = None THEN {Err("NotFound")}
        ELSE IF HasChildren(inf[2][1]) THEN {Err("HasChildren")}
        ELSE LET parent_path == Pop(path)[1]
                 name == Pop(path)[2]
             IN  IF name = None THEN {Err("InvalidPath")}
                 ELSE LET parent == info(view, parent_path)
                      IN  IF ~IsOk(parent) THEN {parent}
                          ELSE IF parent[2] = None THEN {Err("Corruption")}
                          ELSE LET d == EngineDel(view, Display(path))
                               IN  {IF IsOk(d) THEN <<"more", d[2]>> ELSE d}

\* del that fails when the parent does not list the name
DelFirstStrict(view, path) ==
    LET inf == info(view, path)
    IN  IF ~IsOk(inf) THEN {inf}
        ELSE IF inf[2] = None THEN {Err("NotFound")}
        ELSE IF HasChildren(inf[2][1]) THEN {Err("HasChildren")}
        ELSE LET parent_path == Pop(path)[1]
                 name == Pop(path)[2]
             IN  IF name = None THEN {Err("InvalidPath")}
                 ELSE LET parent == info(view, parent_path)
                      IN  IF ~IsOk(parent) THEN {parent}
                          ELSE IF parent[2] = None THEN {Err("Corruption")}
                          ELSE IF name[1] \notin parent[2][1].children
                               THEN {Err("Corruption")}
                          ELSE LET par == RemoveChild(parent[2][1], name[1])
                               IN  {IF IsOk(w) THEN <<"more", w[2]>> ELSE w :
                                       w \in put_unsafe_version(view, parent_path, par)}

\* RwTransactionExt::del up to its engine write of the parent envelope
DelFirst(view, path) ==
    LET inf == info(view, path)
    IN  IF ~IsOk(inf) THEN {inf}
        ELSE IF inf[2] = None THEN {Err("NotFound")}
        ELSE IF HasChildren(inf[2][1]) THEN {Err("HasChildren")}
        ELSE LET parent_path == Pop(path)[1]
                 name == Pop(path)[2]
             IN  IF name = None THEN {Err("InvalidPath")}
                 ELSE LET parent == info(view, parent_path)
                      IN  IF ~IsOk(parent) THEN {parent}
                          ELSE IF parent[2] = None THEN {Err("Corruption")}
                          ELSE LET par == RemoveChild(parent[2][1], name[1])
                               IN  {IF IsOk(w) THEN <<"more", w[2]>> ELSE w :
                                       w \in put_unsafe_version(view, parent_path, par)}

\* RwTransactionExt::del: the engine delete of the key itself
DelSecond(view, path) == {EngineDel(view, Display(path)), Err("EngineError")}

---------------------------------------------------------------------------
(* Inputs *)

MaxDepth == 2

Names == {<<"a">>, <<"b">>}

\* The schema values callers put
Values == {Unit, Test1(5), Test2(53), Test2(-15), Ver(1, 3), Ver(3, 6), NoSave}

\* The values put where only the tree matters: two versions, a failing save
WriteValues == {Test1(5), Test2(53), NoSave}

\* The schema types callers ask get for
Types == {"Unit", "Test1", "Test2", "Ver1", "Ver2", "Ver3"}

\* Paths under the root, down to MaxDepth names
TreePaths == {RootPath \o s : s \in UNION {[1..n -> Names] : n \in 0..MaxDepth}}

\* The empty path and paths that do not start at the root
OddPaths == {<<>>, << <<"a">> >>, << <<>> >>}

PlainPaths == TreePaths \cup OddPaths

\* The root, a child and a grandchild, and a path with no parent
ReadPaths == {RootPath, RootPath \o << <<"a">> >>, RootPath \o << <<"a">>, <<"b">> >>,
              RootPath \o << <<"b">>, <<"a">> >>}

\* Path values built from the public component vector: the root, a child and
\* a grandchild, the same keys spelt with a '/' inside a component, the empty
\* path and paths that do not start at the root
SlashPaths ==
    {RootPath, RootPath \o << <<"a">> >>, RootPath \o << <<"a">>, <<"b">> >>,
     RootPath \o << <<"a", Slash, "b">> >>,
     << RootName \o <<Slash, "a">> >>,
     << RootName \o <<Slash, "a">>, <<"b">> >>,
     <<>>, << <<"a">> >>, << <<>>, <<"a">> >>}

---------------------------------------------------------------------------
(* State *)

\* tx: the call that holds the write transaction, the place it has reached
\* ("parent": the parent envelope is written; "commit": every write is done),
\* the transaction's view, and was: the version stored at path when the call
\* began (None when the path was absent)
NoTx == [op |-> "none", pc |-> "none", path |-> <<>>, data |-> Unit, view |-> <<>>,
         was |-> None]
\* rd: the get or children call that holds a read transaction, the place it
\* has reached ("begun": begin_ro_txn is done; "done": the key is read), the
\* transaction's snapshot and the result read
NoRd == [op |-> "none", pc |-> "none", path |-> <<>>, ty |-> "", snap |-> <<>>,
         res |-> Ok(None)]

\* ret: the call that returned, the place it returned from and its result
NoRet == [op |-> "none", pc |-> "none", path |-> <<>>, ty |-> "", res |-> Ok(None),
          was |-> None]

Ret(op, pc, path, ty, res, was) ==
    [op |-> op, pc |-> pc, path |-> path, ty |-> ty, res |-> res, was |-> was]

\* The stored_version of the envelope at path, if one is there
StoredVersion(view, path) ==
    LET e == info(view, path)
    IN  IF IsOk(e) /\ e[2] # None THEN Some(e[2][1].version) ELSE None

\* rs: the requested type T, the stored version and payload, the types of
\* the load::<X> frames on the stack (the running frame last), the result
\* the last frame returned, and counts of what has been called so far: steps
\* (recursive calls of load), moves (frames entered and returned), loads
\* (SchemaSerde::load), converts (upgrade and downgrade); loadedAt is the
\* type whose SchemaSerde::load ran
NoRs == [pc |-> "idle", T |-> "", version |-> 0, val |-> <<"nil">>, stack |-> <<>>,
         res |-> Ok(None), steps |-> 0, moves |-> 0, loads |-> 0, converts |-> 0,
         loadedAt |-> ""]

\* No App has been constructed
NoFb == [st |-> "none", path |-> <<>>, files |-> <<>>, selected |-> 0,
         cmd |-> "none", arg |-> <<"Current">>, res |-> Ok(None)]

\* No second thread is making a write call
NoWait == [st |-> "none", op |-> "none", path |-> <<>>, data |-> Unit, snap |-> <<>>,
           first |-> [op |-> "none", path |-> <<>>], nw0 |-> 0, firstDone |-> FALSE]

\* No function has been called outside the store
NoEv == [op |-> "none"]

Init ==
    /\ db = <<>>
    /\ open = 0
    /\ tx = NoTx
    /\ rd = NoRd
    /\ ret = NoRet
    /\ last = <<>>
    /\ nw = 0
    /\ rs = NoRs
    /\ ev = NoEv
    /\ wait = NoWait
    /\ fb = NoFb

\* No call is running and the last result has been taken
Idle == tx = NoTx /\ rd = NoRd /\ ret = NoRet /\ rs = NoRs

---------------------------------------------------------------------------
(* Storage: the API calls, one action per step of a call *)

\* connect that writes the root envelope whether or not one is there
ConnectRewritesRoot ==
    /\ tx = NoTx
    /\ open < MaxHandles
    /\ \E w \in put_unsafe_wrapped(db, RootPath, Unit) :
        IF IsOk(w) THEN
            /\ tx' = [op |-> "connect", pc |-> "commit", path |-> RootPath,
                      data |-> Unit, view |-> w[2], was |-> StoredVersion(db, RootPath)]
            /\ UNCHANGED <<db, open, rd, ret, last, nw, rs, ev, wait, fb>>
        ELSE
            /\ ret' = Ret("connect", "start", RootPath, "Unit", w,
                          StoredVersion(db, RootPath))
            /\ UNCHANGED <<db, open, tx, rd, last, nw, rs, ev, wait, fb>>

\* Storage::connect with init_root, up to rw.commit()
Connect ==
    /\ tx = NoTx
    /\ open < MaxHandles
    /\ LET existing == get(db, "Unit", RootPath)
           was == StoredVersion(db, RootPath)
       IN  IF ~IsOk(existing) THEN
               /\ ret' = Ret("connect", "start", RootPath, "Unit", existing, was)
               /\ UNCHANGED <<db, open, tx, rd, last, nw, rs, ev, wait, fb>>
           ELSE IF existing[2] # None THEN
               /\ ret' = Ret("connect", "start", RootPath, "Unit", Ok(None), was)
               /\ open' = open + 1
               /\ UNCHANGED <<db, tx, rd, last, nw, rs, ev, wait, fb>>
           ELSE \E w \in put_unsafe_wrapped(db, RootPath, Unit) :
               IF IsOk(w) THEN
                   /\ tx' = [op |-> "connect", pc |-> "commit", path |-> RootPath,
                             data |-> Unit, view |-> w[2], was |-> was]
                   /\ UNCHANGED <<db, open, rd, ret, last, nw, rs, ev, wait, fb>>
               ELSE
                   /\ ret' = Ret("connect", "start", RootPath, "Unit", w, was)
                   /\ UNCHANGED <<db, open, tx, rd, last, nw, rs, ev, wait, fb>>

\* Storage::close
Close ==
    /\ open > 0
    /\ open' = open - 1
    /\ ret' = Ret("close", "start", <<>>, "", Ok(None), None)
    /\ UNCHANGED <<db, tx, rd, last, nw, rs, ev, wait, fb>>

\* Storage::put: begin_rw_txn and RwTransactionExt::put to its first write
PutStart(path, data) ==
    /\ tx = NoTx
    /\ open > 0
    /\ nw < MaxWrites
    /\ \E o \in PutFirst(db, path, data) :
        IF o[1] = "err" THEN
            /\ ret' = Ret("put", "start", path, data.ty, o, StoredVersion(db, path))
            /\ UNCHANGED <<db, open, tx, rd, last, nw, rs, ev, wait, fb>>
        ELSE
            /\ tx' = [op |-> "put", pc |-> IF o[1] = "more" THEN "parent" ELSE "commit",
                      path |-> path, data |-> data, view |-> o[2],
                      was |-> StoredVersion(db, path)]
            /\ UNCHANGED <<db, open, rd, ret, last, nw, rs, ev, wait, fb>>

\* put whose parent write is committed on its own, before the child write
PutChildParentCommitted ==
    /\ tx.op = "put"
    /\ tx.pc = "parent"
    /\ \E o \in PutSecond(tx.view, tx.path, tx.data) :
        IF IsOk(o) THEN
            /\ tx' = [tx EXCEPT !.pc = "commit", !.view = o[2]]
            /\ UNCHANGED <<db, open, rd, ret, last, nw, rs, ev, wait, fb>>
        ELSE
            /\ tx' = NoTx
            /\ ret' = Ret("put", "parent", tx.path, tx.data.ty, o, tx.was)
            /\ db' = tx.view
            /\ UNCHANGED <<open, rd, last, nw, rs, ev, wait, fb>>

\* Storage::put, new key: the write of the child envelope
PutChild ==
    /\ tx.op = "put"
    /\ tx.pc = "parent"
    /\ \E o \in PutSecond(tx.view, tx.path, tx.data) :
        IF IsOk(o) THEN
            /\ tx' = [tx EXCEPT !.pc = "commit", !.view = o[2]]
            /\ UNCHANGED <<db, open, rd, ret, last, nw, rs, ev, wait, fb>>
        ELSE
            /\ tx' = NoTx
            /\ ret' = Ret("put", "parent", tx.path, tx.data.ty, o, tx.was)
            /\ UNCHANGED <<db, open, rd, last, nw, rs, ev, wait, fb>>

\* Storage::del: begin_rw_txn and RwTransactionExt::del to its parent write
DelStart(path) ==
    /\ tx = NoTx
    /\ open > 0
    /\ nw < MaxWrites
    /\ \E o \in DelFirst(db, path) :
        IF o[1] = "err" THEN
            /\ ret' = Ret("del", "start", path, "", o, StoredVersion(db, path))
            /\ UNCHANGED <<db, open, tx, rd, last, nw, rs, ev, wait, fb>>
        ELSE
            /\ tx' = [op |-> "del", pc |-> "parent", path |-> path,
                      data |-> Unit, view |-> o[2], was |-> StoredVersion(db, path)]
            /\ UNCHANGED <<db, open, rd, ret, last, nw, rs, ev, wait, fb>>

\* Storage::del: the engine delete of the key
DelChild ==
    /\ tx.op = "del"
    /\ tx.pc = "parent"
    /\ \E o \in DelSecond(tx.view, tx.path) :
        IF IsOk(o) THEN
            /\ tx' = [tx EXCEPT !.pc = "commit", !.view = o[2]]
            /\ UNCHANGED <<db, open, rd, ret, last, nw, rs, ev, wait, fb>>
        ELSE
            /\ tx' = NoTx
            /\ ret' = Ret("del", "parent", tx.path, "", o, tx.was)
            /\ UNCHANGED <<db, open, rd, last, nw, rs, ev, wait, fb>>

\* The history of committed puts once the transaction t has committed
LastAfter(t) ==
    LET key == Display(t.path)
    IN  IF t.op = "del" THEN [k \in DOMAIN last \ {key} |-> last[k]]
        ELSE [k \in DOMAIN last \cup {key} |-> IF k = key THEN t.data ELSE last[k]]

\* The type a call was made with
CallType(t) == IF t.op = "del" THEN "" ELSE t.data.ty

\* rw.commit(): the view replaces the database at once
Commit ==
    /\ tx.pc = "commit"
    /\ tx' = NoTx
    /\ ret' = Ret(tx.op, "commit", tx.path, CallType(tx), Ok(None), tx.was)
    /\ db' = tx.view
    /\ last' = LastAfter(tx)
    /\ open' = IF tx.op = "connect" THEN open + 1 ELSE open
    /\ nw' = IF tx.op = "connect" THEN nw ELSE nw + 1
    /\ UNCHANGED <<rd, rs, ev, wait, fb>>

\* rw.commit() fails: the transaction is dropped
CommitFail ==
    /\ tx.pc = "commit"
    /\ tx' = NoTx
    /\ ret' = Ret(tx.op, "commit", tx.path, CallType(tx), Err("EngineError"), tx.was)
    /\ UNCHANGED <<db, open, rd, last, nw, rs, ev, wait, fb>>

\* get that stores the value it has converted back at the path
GetWritesBack(path, T) ==
    /\ open > 0
    /\ LET r == get(db, T, path)
           ws == IF IsOk(r) /\ r[2] # None
                 THEN {w \in UNION {put_unsafe_version(db, path,
                                        OverwriteEnvelope(info(db, path)[2][1], T, x[2])) :
                                    x \in {y \in SchemaSave(r[2][1]) : IsOk(y)}} : IsOk(w)}
                 ELSE {}
       IN  /\ ret' = Ret("get", "start", path, T, r, None)
           /\ IF ws = {} THEN db' = db ELSE \E w \in ws : db' = w[2]
    /\ UNCHANGED <<open, tx, rd, last, nw, rs, ev, wait, fb>>

\* Storage::get::<T>
Get(path, T) ==
    /\ open > 0
    /\ ret' = Ret("get", "start", path, T, get(db, T, path), None)
    /\ UNCHANGED <<db, open, tx, rd, last, nw, rs, ev, wait, fb>>

\* Storage::children::<DataWrapperV1>
Children(path) ==
    /\ open > 0
    /\ ret' = Ret("children", "start", path, "DataWrapperV1", info(db, path), None)
    /\ UNCHANGED <<db, open, tx, rd, last, nw, rs, ev, wait, fb>>

\* The caller takes the result of its call
Return ==
    /\ ret # NoRet
    /\ ret' = NoRet
    /\ UNCHANGED <<db, open, tx, rd, last, nw, rs, ev, wait, fb>>

\* A read transaction that sees the pending writes of the running writer
RoBeginDirty(op, path, T) ==
    /\ open > 0
    /\ rd = NoRd
    /\ rd' = [op |-> op, pc |-> "begun", path |-> path, ty |-> T,
              snap |-> IF tx = NoTx THEN db ELSE tx.view, res |-> Ok(None)]
    /\ UNCHANGED <<db, open, tx, ret, last, nw, rs, ev, wait, fb>>

\* Storage::get / Storage::children on another thread: begin_ro_txn, which
\* fixes the committed database as the transaction's snapshot
RoBegin(op, path, T) ==
    /\ open > 0
    /\ rd = NoRd
    /\ rd' = [op |-> op, pc |-> "begun", path |-> path, ty |-> T, snap |-> db,
              res |-> Ok(None)]
    /\ UNCHANGED <<db, open, tx, ret, last, nw, rs, ev, wait, fb>>

\* RoTransactionExt::get / info inside the read transaction
RoRead ==
    /\ rd.pc = "begun"
    /\ rd' = [rd EXCEPT !.pc = "done",
                        !.res = IF rd.op = "get" THEN get(rd.snap, rd.ty, rd.path)
                                ELSE info(rd.snap, rd.path)]
    /\ UNCHANGED <<db, open, tx, ret, last, nw, rs, ev, wait, fb>>

\* The reading call returns and its transaction is dropped
RoEnd ==
    /\ rd.pc = "done"
    /\ rd' = NoRd
    /\ UNCHANGED <<db, open, tx, ret, last, nw, rs, ev, wait, fb>>

\* The payloads handed to load: what the saves of the schema types produce
Payloads == {<<"nil">>, <<"int", 3>>, <<"f64", 53>>}

\* The frame of load::<X> that is running
Top(stack) == stack[Len(stack)]

\* The stack once the running frame has returned
Caller(stack) == SubSeq(stack, 1, Len(stack) - 1)

\* load::<X> with neither guard: it always calls the neighbour
EnterFrameNoGuard(X, version) ==
    IF version = Version(X) THEN "load"
    ELSE IF version < Version(X) THEN "prev"
    ELSE "next"

\* load::<X> that deserializes as X whatever version is stored
EnterFrameLoadsAtOnce(X, version) == "load"

\* load::<X> that deserializes as X where the chain ends
EnterFrameLoadsAtEnd(X, version) ==
    IF version = Version(X) THEN "load"
    ELSE IF version < Version(X) THEN
        IF Version(PrevVersion(X)) >= Version(X) \/ version = 0 THEN "load" ELSE "prev"
    ELSE
        IF Version(X) >= Version(NextVersion(X)) \/ version = U64Max THEN "load" ELSE "next"

\* load::<X>(version, _): `match version.cmp(&T::version())` and the guard
\* of the arm taken: deserialize here ("load"), return the error ("end"), or
\* call load::<PrevVersion> ("prev") or load::<NextVersion> ("next")
EnterFrame(X, version) ==
    IF version = Version(X) THEN "load"
    ELSE IF version < Version(X) THEN
        IF Version(PrevVersion(X)) >= Version(X) \/ version = 0 THEN "end" ELSE "prev"
    ELSE
        IF Version(X) >= Version(NextVersion(X)) \/ version = U64Max THEN "end" ELSE "next"

\* Where the call stands once a frame has returned to the stack left
AfterReturn(stack) == IF stack = <<>> THEN "done" ELSE "return"

\* A call of load::<T>(version, val)
LoadStart(T, version, val) ==
    /\ rs = NoRs
    /\ rs' = [NoRs EXCEPT !.pc = "call", !.T = T, !.version = version, !.val = val,
                          !.stack = <<T>>]
    /\ UNCHANGED <<db, open, tx, rd, ret, last, nw, ev, wait, fb>>

\* The running frame load::<X> up to its return or its recursive call
LoadEnter ==
    /\ rs.pc = "call"
    /\ LET X == Top(rs.stack)
           arm == EnterFrame(X, rs.version)
       IN  rs' = CASE arm = "load" ->
                        [rs EXCEPT !.pc = AfterReturn(Caller(rs.stack)),
                                   !.stack = Caller(@),
                                   !.res = SchemaLoad(X, rs.val),
                                   !.loads = @ + 1, !.loadedAt = X, !.moves = @ + 1]
                   [] arm = "end" ->
                        [rs EXCEPT !.pc = AfterReturn(Caller(rs.stack)),
                                   !.stack = Caller(@),
                                   !.res = Err("InvalidSchema"), !.moves = @ + 1]
                   [] arm = "prev" ->
                        [rs EXCEPT !.stack = Append(@, PrevVersion(X)),
                                   !.steps = @ + 1, !.moves = @ + 1]
                   [] arm = "next" ->
                        [rs EXCEPT !.stack = Append(@, NextVersion(X)),
                                   !.steps = @ + 1, !.moves = @ + 1]
    /\ UNCHANGED <<db, open, tx, rd, ret, last, nw, ev, wait, fb>>

\* The frame load::<X> after its recursive call has returned: `?` hands an
\* error on, a value goes through X::upgrade or X::downgrade
LoadReturn ==
    /\ rs.pc = "return"
    /\ LET X == Top(rs.stack)
       IN  rs' = IF ~IsOk(rs.res)
                 THEN [rs EXCEPT !.pc = AfterReturn(Caller(rs.stack)),
                                 !.stack = Caller(@), !.moves = @ + 1]
                 ELSE [rs EXCEPT !.pc = AfterReturn(Caller(rs.stack)),
                                 !.stack = Caller(@),
                                 !.res = IF rs.version < Version(X)
                                         THEN Upgrade(X, rs.res[2])
                                         ELSE Downgrade(X, rs.res[2]),
                                 !.converts = @ + 1, !.moves = @ + 1]
    /\ UNCHANGED <<db, open, tx, rd, ret, last, nw, ev, wait, fb>>

\* The caller of load takes the result
LoadTaken ==
    /\ rs.pc = "done"
    /\ rs' = NoRs
    /\ UNCHANGED <<db, open, tx, rd, ret, last, nw, ev, wait, fb>>

\* Calls of load::<T>(version, val) for every declared type, every version
\* and every payload, run one frame at a time
NextLoad ==
    \/ \E T \in Types, version \in 0..U64Max, val \in Payloads : LoadStart(T, version, val)
    \/ LoadEnter
    \/ LoadReturn
    \/ LoadTaken

SpecLoad == Init /\ [][NextLoad]_vars

\* The types declared by hand with a gap between their versions
GapTypes == {"Gap1", "Gap3"}

\* Calls of load::<T>(version, val) for the declared types and for the types
\* declared by hand, followed to a stack of MaxFrames frames
NextGap ==
    \/ \E T \in Types \cup GapTypes, version \in 0..U64Max, val \in Payloads :
           LoadStart(T, version, val)
    \/ Len(rs.stack) < MaxFrames /\ LoadEnter
    \/ LoadReturn
    \/ LoadTaken

SpecGap == Init /\ [][NextGap]_vars

---------------------------------------------------------------------------
(* Calls of the functions that touch no store: Path's operators,
   DataWrapperV1's save and load, and app.rs's CdPath::non_auto. ev holds
   the last call: its arguments and what it returned. *)

\* enum CdPath
Current == <<"Current">>
Up == <<"Up">>
Selected == <<"Selected">>
Absolute(p) == <<"Absolute", p>>
Relative(p) == <<"Relative", p>>
Auto(s) == <<"Auto", s>>

\* str::starts_with
StartsWith(s, pre) == Len(s) >= Len(pre) /\ SubSeq(s, 1, Len(pre)) = pre

\* non_auto that takes a string for absolute when its first segment is the
\* root name or is empty
non_autoFirstSegment(self) ==
    IF self[1] = "Auto" THEN
        LET auto == self[2]
            path == Split(auto)
        IN  IF path = << <<".">> >> THEN Current
            ELSE IF path = << <<".", ".">> >> THEN Up
            ELSE IF path[1] = <<>> \/ path[1] = RootName THEN Absolute(path)
            ELSE Relative(path)
    ELSE self

\* CdPath::non_auto
non_auto(self) ==
    IF self[1] = "Auto" THEN
        LET auto == self[2]
            path == Split(auto)
        IN  IF path = << <<".">> >> THEN Current
            ELSE IF path = << <<".", ".">> >> THEN Up
            ELSE LET root == Display(RootPath)
                     p == path
                 IN  IF StartsWith(auto, <<Slash>>) \/ StartsWith(auto, root)
                     THEN Absolute(p)
                     ELSE Relative(p)
    ELSE self

RECURSIVE Strs(_)
\* The strings of at most n characters a user types
Strs(n) ==
    IF n = 0 THEN {<<>>}
    ELSE LET S == Strs(n - 1)
         IN  S \cup {Append(x, c) : x \in S, c \in {".", Slash, "a"}}

\* What the browser hands to non_auto
CdPaths ==
    {Auto(x) : x \in Strs(MaxStr)}
    \cup {Auto(RootName \o x) : x \in Strs(MaxStr - 1)}
    \cup {Auto(SubSeq(RootName, 1, 4)), Auto(<<"a">> \o RootName)}
    \cup {Current, Up, Selected, Absolute(RootPath), Relative(<< <<"a">> >>)}

\* The right-hand sides of + and +=, as their to_string()
Suffixes ==
    {<<>>, <<"a">>, <<"b">>, <<Slash>>, <<"a", Slash, "b">>, <<"a", Slash>>,
     <<Slash, "a">>}

\* Path values a caller can hold without composing them from the root
PathPool == SlashPaths \cup {<< <<>> >>, << <<>>, <<>> >>}

\* The envelopes save is called with
Envelopes ==
    {DataWrapperV1(c, v, d) : c \in SUBSET Names, v \in 0..U64Max, d \in Payloads}

\* Stored values load is called with that no save has produced
RawValues ==
    LET a == <<"str", <<"a">>>>
        b == <<"str", <<"b">>>>
        one == <<"int", 1>>
        nil == <<"nil">>
    IN  {<<"arr", << <<"arr", <<a, a>>>>, one, nil >> >>,
         <<"arr", << <<"arr", <<a, b, a>>>>, one, <<"int", 3>> >> >>,
         <<"arr", << <<"arr", <<a, one>>>>, one, nil >> >>,
         <<"arr", << <<"arr", <<a>>>>, <<"f64", 10>>, nil >> >>,
         <<"arr", << <<"arr", <<a>>>>, <<"int", -1>>, nil >> >>,
         <<"arr", << a, one, nil >> >>,
         <<"arr", << <<"arr", <<a>>>>, one >> >>,
         <<"arr", << <<"arr", <<a>>>>, one, nil, nil >> >>,
         nil}

\* The paths the caller has composed from the root so far
Built ==
    IF ev.op = "add"
    THEN {ev.other} \cup (IF ev.rooted THEN {ev.res} ELSE {})
    ELSE {}

\* let res = base + suffix, with another composed path other still held
AddCall(base, suffix) ==
    /\ Len(base) + Len(Split(suffix)) <= MaxDepth + 1
    /\ \E other \in Built \cup {RootPath} :
        ev' = [op |-> "add", lhs |-> base, rhs |-> suffix, res |-> Add(base, suffix),
               other |-> other, rooted |-> (base = RootPath \/ base \in Built)]
    /\ UNCHANGED <<db, open, tx, rd, ret, last, nw, rs, wait, fb>>

\* let res = self.pop(); added is the + that has just made self, if one has
PopCall(self) ==
    /\ ev' = [op |-> "pop", self |-> self, res |-> Pop(self), after |-> self,
              added |-> IF ev.op = "add" /\ self = ev.res
                        THEN Some(<<ev.lhs, ev.rhs>>) ELSE None]
    /\ UNCHANGED <<db, open, tx, rd, ret, last, nw, rs, wait, fb>>

\* let res = self.to_string()
DisplayCall(self) ==
    /\ ev' = [op |-> "to_string", self |-> self, res |-> Display(self),
              rooted |-> (self = RootPath \/ self \in Built)]
    /\ UNCHANGED <<db, open, tx, rd, ret, last, nw, rs, wait, fb>>

\* let res = self.save()
SaveCall(self) ==
    /\ \E r \in SchemaSave(self) : ev' = [op |-> "save", self |-> self, res |-> r]
    /\ UNCHANGED <<db, open, tx, rd, ret, last, nw, rs, wait, fb>>

\* let res = DataWrapperV1::load(val); saved is the envelope whose save has
\* just returned val, if one has
LoadCall(val) ==
    /\ ev' = [op |-> "load", val |-> val, res |-> LoadDataWrapperV1(val),
              saved |-> IF ev.op = "save" /\ ev.res = Ok(val)
                        THEN Some(ev.self) ELSE None]
    /\ UNCHANGED <<db, open, tx, rd, ret, last, nw, rs, wait, fb>>

\* let res = self.non_auto()
NonAutoCall(self) ==
    /\ ev' = [op |-> "non_auto", self |-> self, res |-> non_auto(self)]
    /\ UNCHANGED <<db, open, tx, rd, ret, last, nw, rs, wait, fb>>

\* Calls of the store-free functions in any order, each on arguments from
\* the pools or on what the call before returned
NextPure ==
    \/ \E base \in PathPool \cup Built, suffix \in Suffixes : AddCall(base, suffix)
    \/ \E self \in PathPool \cup (IF ev.op = "add" THEN {ev.res} ELSE {}) : PopCall(self)
    \/ \E self \in PathPool \cup Built : DisplayCall(self)
    \/ \E self \in Envelopes : SaveCall(self)
    \/ \E val \in RawValues \cup (IF ev.op = "save" THEN {ev.res[2]} ELSE {}) : LoadCall(val)
    \/ \E self \in CdPaths : NonAutoCall(self)

SpecPure == Init /\ [][NextPure]_vars

\* One caller making one writing call at a time, on any path
Next ==
    \/ Idle /\ Connect
    \/ Idle /\ Close
    \/ Idle /\ \E path \in PlainPaths, data \in WriteValues : PutStart(path, data)
    \/ PutChild
    \/ Idle /\ \E path \in PlainPaths : DelStart(path)
    \/ DelChild
    \/ Commit
    \/ CommitFail
    \/ Return

Spec == Init /\ [][Next]_vars

\* One caller making one call at a time, writing and reading values of every
\* type on a chain of three paths
NextRead ==
    \/ Idle /\ Connect
    \/ Idle /\ Close
    \/ Idle /\ \E path \in ReadPaths, data \in Values : PutStart(path, data)
    \/ PutChild
    \/ Idle /\ \E path \in ReadPaths : DelStart(path)
    \/ DelChild
    \/ Commit
    \/ CommitFail
    \/ Idle /\ \E path \in ReadPaths, T \in Types : Get(path, T)
    \/ Idle /\ \E path \in ReadPaths : Children(path)
    \/ Return

SpecRead == Init /\ [][NextRead]_vars

\* One caller making one writing call at a time, on Path values built from
\* the component vector
NextSlash ==
    \/ Idle /\ Connect
    \/ Idle /\ Close
    \/ Idle /\ \E path \in SlashPaths, data \in WriteValues : PutStart(path, data)
    \/ PutChild
    \/ Idle /\ \E path \in SlashPaths : DelStart(path)
    \/ DelChild
    \/ Commit
    \/ CommitFail
    \/ Return

SpecSlash == Init /\ [][NextSlash]_vars

\* What the writing and the reading thread pass in the concurrent runs
ConcPaths == ReadPaths
ConcValues == {Test1(5), Test2(53), NoSave}
ConcTypes == {"Test1"}

\* The writing thread is between calls
WriterFree == tx = NoTx /\ ret = NoRet

\* A thread of writing calls and a thread of reading calls on shared handles
NextConc ==
    \/ WriterFree /\ Connect
    \/ WriterFree /\ \E path \in ConcPaths, data \in ConcValues : PutStart(path, data)
    \/ PutChild
    \/ WriterFree /\ \E path \in ConcPaths : DelStart(path)
    \/ DelChild
    \/ Commit
    \/ CommitFail
    \/ Return
    \/ \E path \in ConcPaths, T \in ConcTypes : RoBegin("get", path, T)
    \/ \E path \in ConcPaths : RoBegin("children", path, "DataWrapperV1")
    \/ RoRead
    \/ RoEnd

SpecConc == Init /\ [][NextConc]_vars

---------------------------------------------------------------------------
(* Two threads making write calls: the second reaches begin_rw_txn while
   the first holds the writer lock, and runs once the lock is released *)

\* What the two writing threads pass
TwoPaths == TreePaths
TwoValues == {Test1(5), Test2(53)}

\* No call is running on either thread
TwoFree == tx = NoTx /\ ret = NoRet /\ wait = NoWait

\* a writer that works on the store as it was when it asked for the lock
WriterViewStale == wait.snap

\* begin_rw_txn has returned: the transaction reads the committed store
WriterView == db

\* The second thread calls connect, put or del and blocks in begin_rw_txn
Blocked(op, path, data) ==
    /\ wait = NoWait
    /\ tx # NoTx
    /\ IF op = "connect" THEN open < MaxHandles ELSE open > 0 /\ nw + 1 < MaxWrites
    /\ wait' = [st |-> "blocked", op |-> op, path |-> path, data |-> data, snap |-> db,
                first |-> [op |-> tx.op, path |-> tx.path], nw0 |-> nw,
                firstDone |-> FALSE]
    /\ UNCHANGED <<db, open, tx, rd, ret, last, nw, rs, ev, fb>>

\* The first thread's transaction committed before the lock was released
FirstDone ==
    IF wait.first.op = "connect" THEN Display(RootPath) \in DOMAIN db
    ELSE nw = wait.nw0 + 1

\* The lock is free and the first thread has its result: the blocked call
\* of the second thread runs init_root, put or del to its first write
SecondStart ==
    /\ wait.st = "blocked"
    /\ tx = NoTx
    /\ ret = NoRet
    /\ wait' = [wait EXCEPT !.st = "running", !.firstDone = FirstDone]
    /\ LET view == WriterView
           was == StoredVersion(view, wait.path)
       IN  CASE wait.op = "connect" ->
                 LET existing == get(view, "Unit", RootPath)
                 IN  IF ~IsOk(existing) THEN
                         /\ ret' = Ret("connect", "start", RootPath, "Unit", existing, was)
                         /\ UNCHANGED <<db, open, tx, rd, last, nw, rs, ev, fb>>
                     ELSE IF existing[2] # None THEN
                         /\ ret' = Ret("connect", "start", RootPath, "Unit", Ok(None), was)
                         /\ open' = open + 1
                         /\ UNCHANGED <<db, tx, rd, last, nw, rs, ev, fb>>
                     ELSE \E w \in put_unsafe_wrapped(view, RootPath, Unit) :
                         IF IsOk(w) THEN
                             /\ tx' = [op |-> "connect", pc |-> "commit", path |-> RootPath,
                                       data |-> Unit, view |-> w[2], was |-> was]
                             /\ UNCHANGED <<db, open, rd, ret, last, nw, rs, ev, fb>>
                         ELSE
                             /\ ret' = Ret("connect", "start", RootPath, "Unit", w, was)
                             /\ UNCHANGED <<db, open, tx, rd, last, nw, rs, ev, fb>>
             [] wait.op = "put" ->
                 \E o \in PutFirst(view, wait.path, wait.data) :
                     IF o[1] = "err" THEN
                         /\ ret' = Ret("put", "start", wait.path, wait.data.ty, o, was)
                         /\ UNCHANGED <<db, open, tx, rd, last, nw, rs, ev, fb>>
                     ELSE
                         /\ tx' = [op |-> "put",
                                   pc |-> IF o[1] = "more" THEN "parent" ELSE "commit",
                                   path |-> wait.path, data |-> wait.data, view |-> o[2],
                                   was |-> was]
                         /\ UNCHANGED <<db, open, rd, ret, last, nw, rs, ev, fb>>
             [] OTHER ->
                 \E o \in DelFirst(view, wait.path) :
                     IF o[1] = "err" THEN
                         /\ ret' = Ret("del", "start", wait.path, "", o, was)
                         /\ UNCHANGED <<db, open, tx, rd, last, nw, rs, ev, fb>>
                     ELSE
                         /\ tx' = [op |-> "del", pc |-> "parent", path |-> wait.path,
                                   data |-> Unit, view |-> o[2], was |-> was]
                         /\ UNCHANGED <<db, open, rd, ret, last, nw, rs, ev, fb>>

\* The second thread has taken its result
SecondDone ==
    /\ wait.st = "running"
    /\ tx = NoTx
    /\ ret = NoRet
    /\ wait' = NoWait
    /\ UNCHANGED <<db, open, tx, rd, ret, last, nw, rs, ev, fb>>

\* Two threads of write calls on shared handles, the second entering only
\* while the first holds the lock
NextTwo ==
    \/ TwoFree /\ Connect
    \/ TwoFree /\ \E path \in TwoPaths, data \in TwoValues : PutStart(path, data)
    \/ PutChild
    \/ TwoFree /\ \E path \in TwoPaths : DelStart(path)
    \/ DelChild
    \/ Commit
    \/ CommitFail
    \/ Return
    \/ Blocked("connect", RootPath, Unit)
    \/ \E path \in TwoPaths, data \in TwoValues : Blocked("put", path, data)
    \/ \E path \in TwoPaths : Blocked("del", path, Unit)
    \/ SecondStart
    \/ SecondDone

SpecTwo == Init /\ [][NextTwo]_vars

---------------------------------------------------------------------------
(* app.rs: the FileBrowser of one App on its own Storage handle.  A command
   is one action: the App is single-threaded and each Storage call it makes
   runs to its commit or its error before the command goes on.  The texts
   shown (info, info_title, file_info) are left out. *)

\* The characters of the names, in the order of their code points
CharOrder == <<".", Slash, "@", "a", "b", "o", "r", "t">>
CharRank(c) == CHOOSE i \in DOMAIN CharOrder : CharOrder[i] = c

RECURSIVE StrLess(_, _)
\* impl Ord for String: x < y
StrLess(x, y) ==
    IF y = <<>> THEN FALSE
    ELSE IF x = <<>> THEN TRUE
    ELSE IF Head(x) = Head(y) THEN StrLess(Tail(x), Tail(y))
    ELSE CharRank(Head(x)) < CharRank(Head(y))

RECURSIVE SortStrings(_)
\* files.sort() on the names collected from the children set
SortStrings(S) ==
    IF S = {} THEN <<>>
    ELSE LET m == CHOOSE x \in S : \A y \in S \ {x} : StrLess(x, y)
         IN  <<m>> \o SortStrings(S \ {m})

Dot == <<".">>
DotDot == <<".", ".">>

\* FileBrowser::ls: <<result, browser>>
ls(b, store) ==
    LET inf == info(store, b.path)
    IN  IF ~IsOk(inf) THEN <<inf, b>>
        ELSE IF inf[2] = None THEN <<Err("NoSuchNode"), b>>
        ELSE <<Ok(None),
               [b EXCEPT !.files = <<Dot, DotDot>> \o SortStrings(inf[2][1].children)]>>

\* The path a CdPath without Auto and Selected stands for in write and in
\* selected_path
Resolved(b, p) ==
    CASE p[1] = "Relative" -> Add(b.path, Display(p[2]))
      [] p[1] = "Absolute" -> p[2]
      [] p[1] = "Up" -> Pop(b.path)[1]
      [] OTHER -> b.path

\* FileBrowser::selected_path: (CdPath, Path)
selected_path(b) ==
    LET res == IF b.selected < Len(b.files)
               THEN LET p == b.files[b.selected + 1]
                    IN  IF p = Dot THEN Current
                        ELSE IF p = DotDot THEN Up
                        ELSE Relative(<<p>>)
               ELSE Current
    IN  <<res, Resolved(b, non_auto(res))>>

\* FileBrowser::cd: the path self.path holds when ls is called
CdTarget(b, path) ==
    LET p0 == non_auto(path)
        p == IF p0 = Selected THEN non_auto(selected_path(b)[1]) ELSE p0
    IN  CASE p[1] = "Relative" -> AddAssign(b.path, Display(p[2]))
          [] p[1] = "Absolute" -> p[2]
          [] p[1] = "Up" -> IF Len(b.path) # 1 THEN Pop(b.path)[1] ELSE b.path
          [] OTHER -> b.path

\* cd that stays on the path it could not list
cdKeepsTarget(b, path, store) ==
    UNION {{IF ~IsOk(l[1]) THEN <<l[1], [b EXCEPT !.path = moved]>>
            ELSE <<Ok(None), [l[2] EXCEPT !.selected = 0]>> :
               l \in {ls([b EXCEPT !.path = moved], store)}} :
           moved \in {CdTarget(b, path)}}

\* FileBrowser::cd: the one <<result, browser>>, as a set
cd(b, path, store) ==
    UNION {{IF ~IsOk(l[1]) THEN <<l[1], b>>
            ELSE <<Ok(None), [l[2] EXCEPT !.selected = 0]>> :
               l \in {ls([b EXCEPT !.path = moved], store)}} :
           moved \in {CdTarget(b, path)}}

\* rw.commit() of a transaction whose view is given: <<result, store>>
Committed(store, view) == {<<Ok(None), view>>, <<Err("EngineError"), store>>}

\* Storage::put run to its end: <<result, store>>
StoragePut(store, path, data) ==
    UNION {CASE o[1] = "err" -> {<<o, store>>}
             [] o[1] = "ok" -> Committed(store, o[2])
             [] OTHER ->
                UNION {IF s[1] = "err" THEN {<<s, store>>} ELSE Committed(store, s[2]) :
                          s \in PutSecond(o[2], path, data)} :
           o \in PutFirst(store, path, data)}

\* Storage::del run to its end: <<result, store>>
StorageDel(store, path) ==
    UNION {IF o[1] = "err" THEN {<<o, store>>}
           ELSE UNION {IF s[1] = "err" THEN {<<s, store>>} ELSE Committed(store, s[2]) :
                          s \in DelSecond(o[2], path)} :
           o \in DelFirst(store, path)}

\* Storage::connect run to its end: <<result, store>>
StorageConnect(store) ==
    UNION {IF ~IsOk(existing) THEN {<<existing, store>>}
           ELSE IF existing[2] # None THEN {<<Ok(None), store>>}
           ELSE UNION {IF w[1] = "err" THEN {<<w, store>>} ELSE Committed(store, w[2]) :
                          w \in put_unsafe_wrapped(store, RootPath, Unit)} :
           existing \in {get(store, "Unit", RootPath)}}

\* The path FileBrowser::write puts the unit value at
WriteTarget(b, path) ==
    LET p0 == non_auto(path)
    IN  Resolved(b, IF p0 = Selected THEN non_auto(selected_path(b)[1]) ELSE p0)

\* What write and rm return after the Storage call returned o: its error,
\* or what ls returns on the store it left
ThenLs(b, o, store) ==
    IF ~IsOk(o[1]) THEN {<<o[1], b, store>>}
    ELSE {<<l[1], l[2], o[2]>> : l \in {ls(b, o[2])}}

\* FileBrowser::write: <<result, browser, store>>
write(b, path, store) ==
    UNION {UNION {ThenLs(b, o, store) : o \in StoragePut(store, target, Unit)} :
           target \in {WriteTarget(b, path)}}

\* rm that moves the selection up when it deletes the last entry
rmClampsSelection(b, store) ==
    UNION {IF sel[1][1] \in {"Relative", "Absolute"}
           THEN {<<r[1],
                   [r[2] EXCEPT !.selected =
                       IF @ < Len(r[2].files) THEN @ ELSE Len(r[2].files) - 1],
                   r[3]>> :
                    r \in UNION {ThenLs(b, o, store) : o \in StorageDel(store, sel[2])}}
           ELSE {<<Err("Cannot remove current or parent file"), b, store>>} :
           sel \in {selected_path(b)}}

\* FileBrowser::rm: <<result, browser, store>>
rm(b, store) ==
    UNION {IF sel[1][1] \in {"Relative", "Absolute"}
           THEN UNION {ThenLs(b, o, store) : o \in StorageDel(store, sel[2])}
           ELSE {<<Err("Cannot remove current or parent file"), b, store>>} :
           sel \in {selected_path(b)}}

\* What the user types after cd and write
BrowserStrings ==
    {<<"a">>, <<"b">>, Dot, DotDot, <<Slash>>, RootName, RootName \o <<Slash, "a">>,
     <<"a", Slash, "b">>, <<>>}

\* The browser after a command: its fields, the command, the argument of a
\* cd and the result handed to show_error
After(b, cmd, arg, res) == [b EXCEPT !.st = "up", !.cmd = cmd, !.arg = arg, !.res = res]

\* A database another program wrote to: the root lists the child a, and the
\* value under a's key is no record
ForeignStores ==
    LET child == RootPath \o << <<"a">> >>
    IN  UNION {{EnginePut(made[2], Display(child), <<"nil">>) :
                   made \in {o \in StoragePut(rooted[2], child, Unit) :
                                IsOk(o[1]) /\ o[2] # rooted[2]}} :
               rooted \in {o \in StorageConnect(<<>>) : IsOk(o[1]) /\ o[2] # <<>>}}

\* The database directory main hands to App::connect: a new one, or one that
\* holds a value that is no record
InitBrowser ==
    /\ db \in {<<>>} \cup ForeignStores
    /\ open = 0
    /\ tx = NoTx
    /\ rd = NoRd
    /\ ret = NoRet
    /\ last = <<>>
    /\ nw = 0
    /\ rs = NoRs
    /\ ev = NoEv
    /\ wait = NoWait
    /\ fb = NoFb

\* App::connect: Storage::connect, then cd to the root; an error of either
\* leaves no App
AppConnect ==
    /\ fb = NoFb
    /\ \E c \in StorageConnect(db) :
        /\ db' = c[2]
        /\ \E r \in cd([NoFb EXCEPT !.path = RootPath], Absolute(RootPath), c[2]) :
               IF IsOk(c[1]) /\ IsOk(r[1])
               THEN fb' = After(r[2], "connect", Absolute(RootPath), Ok(None)) /\ open' = open + 1
               ELSE fb' = fb /\ open' = open
    /\ UNCHANGED <<tx, rd, ret, last, nw, rs, ev, wait>>

\* App::up
AppUp ==
    /\ fb.st = "up"
    /\ fb' = After([fb EXCEPT !.selected = IF @ > 0 THEN @ - 1 ELSE @], "up", Current, Ok(None))
    /\ UNCHANGED <<db, open, tx, rd, ret, last, nw, rs, ev, wait>>

\* App::down
AppDown ==
    /\ fb.st = "up"
    /\ fb' = After([fb EXCEPT !.selected = IF @ + 1 < Len(fb.files) THEN @ + 1 ELSE @],
                   "down", Current, Ok(None))
    /\ UNCHANGED <<db, open, tx, rd, ret, last, nw, rs, ev, wait>>

\* App::enter with "cd <path>", App::right (Selected) and App::left (Up)
AppCd(path) ==
    /\ fb.st = "up"
    /\ \E r \in cd(fb, path, db) : fb' = After(r[2], "cd", path, r[1])
    /\ UNCHANGED <<db, open, tx, rd, ret, last, nw, rs, ev, wait>>

\* App::enter with "ls"
AppLs ==
    /\ fb.st = "up"
    /\ \E r \in {ls(fb, db)} : fb' = After(r[2], "ls", Current, r[1])
    /\ UNCHANGED <<db, open, tx, rd, ret, last, nw, rs, ev, wait>>

\* App::enter with "write <name>"
AppWrite(path) ==
    /\ fb.st = "up"
    /\ nw < MaxWrites
    /\ Len(WriteTarget(fb, path)) <= MaxDepth + 1
    /\ \E r \in write(fb, path, db) :
        /\ fb' = After(r[2], "write", Current, r[1])
        /\ db' = r[3]
    /\ nw' = nw + 1
    /\ UNCHANGED <<open, tx, rd, ret, last, rs, ev, wait>>

\* App::enter with "rm"
AppRm ==
    /\ fb.st = "up"
    /\ nw < MaxWrites
    /\ \E r \in rm(fb, db) :
        /\ fb' = After(r[2], "rm", Current, r[1])
        /\ db' = r[3]
    /\ nw' = nw + 1
    /\ UNCHANGED <<open, tx, rd, ret, last, rs, ev, wait>>

\* The commands of one App, in any order, with MaxWrites write and rm
\* commands among them
NextBrowser ==
    \/ AppConnect
    \/ AppUp
    \/ AppDown
    \/ \E x \in BrowserStrings : AppCd(Auto(x))
    \/ AppCd(Selected)
    \/ AppCd(Up)
    \/ AppLs
    \/ \E x \in BrowserStrings : AppWrite(Auto(x))
    \/ AppRm

SpecBrowser == InitBrowser /\ [][NextBrowser]_vars

---------------------------------------------------------------------------
(* The tree invariants on a store *)

\* The paths present in a store: the callers' paths whose key is there and,
\* for every key, the path whose components are the key's segments
PresentPaths(store) ==
    {P \in PlainPaths : Display(P) \in DOMAIN store} \cup {Split(k) : k \in DOMAIN store}

\* The envelope read at a present path
Envelope(store, P) == info(store, P)[2][1]

\* The envelope at P reads back
Readable(store, P) == IsOk(info(store, P)) /\ info(store, P)[2] # None

\* P's parent is present and lists P's last component
ParentLinked(store, P) ==
    /\ Len(P) > 0
    /\ Readable(store, Pop(P)[1])
    /\ Pop(P)[2][1] \in Envelope(store, Pop(P)[1]).children

\* Every name in P's children set is a present path
ChildrenPresent(store, P) ==
    /\ Readable(store, P)
    /\ \A n \in Envelope(store, P).children : Display(Append(P, n)) \in DOMAIN store

I2(store) == \A P \in PresentPaths(store) : P # RootPath => ParentLinked(store, P)
I3(store) == \A P \in PresentPaths(store) : ChildrenPresent(store, P)

---------------------------------------------------------------------------
(* Claims *)

\* C1: in every state, successful and failing calls alike, every present
\* non-root path has its parent present, and the parent's children set holds
\* the path's last component.
C1_ParentPresent == I2(db)

\* C1 witness: a delete has committed and a non-root path is still present.
C1_Witness ==
    /\ ret.op = "del" /\ ret.pc = "commit" /\ IsOk(ret.res)
    /\ \E P \in PresentPaths(db) : P # RootPath

\* C2: in every state, every name in a present path's children set is itself
\* a present path (no dangling child link).
C2_NoDanglingChild == I3(db)

\* C2 witness: a delete has committed under a parent that keeps another child.
C2_Witness ==
    /\ ret.op = "del" /\ ret.pc = "commit" /\ IsOk(ret.res)
    /\ Readable(db, Pop(ret.path)[1])
    /\ Envelope(db, Pop(ret.path)[1]).children # {}

\* C4: a put or delete that has written the parent envelope changes the
\* database only at the step where it returns Ok; when it returns an error
\* its transaction is gone and the database is as it was.
C4_FailedWriteAborts ==
    [][ (tx.op \in {"put", "del"} /\ (tx.op = "del" \/ tx.was = None))
        => /\ (ret' # ret /\ ~IsOk(ret'.res)) => (tx' = NoTx /\ db' = db)
           /\ db' # db => (ret'.op = tx.op /\ IsOk(ret'.res)) ]_vars

\* C4 witness: a put returned the error of the child's save(), which runs
\* after the parent envelope is written.
C4_Witness ==
    ret.op = "put" /\ ret.pc = "parent" /\ ret.res = Err("SaveError")

\* C5: a delete of a present path with children returns HasChildren and
\* changes nothing, and no step removes a key whose envelope has children.
C5_DeleteNonEmptyFails ==
    [][ /\ \A k \in DOMAIN db :
              k \notin DOMAIN db' => Envelope(db, Split(k)).children = {}
        /\ (ret' # ret /\ ret'.op = "del" /\ Readable(db, ret'.path)
               /\ Envelope(db, ret'.path).children # {})
           => (ret'.res = Err("HasChildren") /\ db' = db) ]_vars

\* C5 witness: a delete returned HasChildren.
C5_Witness ==
    ret.op = "del" /\ ret.res = Err("HasChildren") /\ ret.path # RootPath

\* C6: a put on an absent non-empty path whose parent path is absent returns
\* NoParent and changes nothing.  (The empty path has no last component to
\* remove; a put on it returns InvalidPath.)
C6_NoParentFails ==
    [][ (ret' # ret /\ ret'.op = "put" /\ Len(ret'.path) > 0
            /\ Display(ret'.path) \notin DOMAIN db
            /\ Display(Pop(ret'.path)[1]) \notin DOMAIN db)
        => (ret'.res = Err("NoParent") /\ db' = db) ]_vars

\* C6 witness: a put two levels under the root returned NoParent.
C6_Witness ==
    ret.op = "put" /\ ret.res = Err("NoParent") /\ Len(ret.path) = 3

\* C7: a get with the type of the last committed put at the path returns
\* the value that was put.
C7_RoundTrip ==
    (ret.op = "get" /\ Display(ret.path) \in DOMAIN last
        /\ last[Display(ret.path)].ty = ret.ty)
    => ret.res = Ok(Some(last[Display(ret.path)]))

\* C7 witness: a get of Test2 returned the Test2 value put at the path.
C7_Witness ==
    /\ ret.op = "get" /\ ret.ty = "Test2" /\ ret.res = Ok(Some(Test2(-15)))
    /\ Display(ret.path) \in DOMAIN last
    /\ last[Display(ret.path)] = Test2(-15)

RECURSIVE Convert(_, _)
\* val carried to type U one version at a time, starting at val's own type:
\* the next type's upgrade while U is above, the previous type's downgrade
\* while U is below
Convert(val, U) ==
    IF val.ty = U THEN Ok(val)
    ELSE LET N == IF Version(val.ty) < Version(U)
                  THEN NextVersion(val.ty) ELSE PrevVersion(val.ty)
             r == IF Version(val.ty) < Version(U)
                  THEN Upgrade(N, val) ELSE Downgrade(N, val)
         IN  IF N = "NoSchema" THEN Err("InvalidSchema")
             ELSE IF IsOk(r) THEN Convert(r[2], U) ELSE r

RECURSIVE Above(_)
\* The types reached from T by NextVersion links
Above(T) == IF T = "NoSchema" THEN {} ELSE {T} \cup Above(NextVersion(T))

RECURSIVE Below(_)
\* The types reached from T by PrevVersion links
Below(T) == IF T = "NoSchema" THEN {} ELSE {T} \cup Below(PrevVersion(T))

\* C8: a get with a type U on the chain of the type T last put at the path
\* returns the value put, carried from T to U by the chain's upgrades (or
\* downgrades) in order.
C8_ChainConversion ==
    (ret.op = "get" /\ Display(ret.path) \in DOMAIN last
        /\ ret.ty \in Above(last[Display(ret.path)].ty)
                      \cup Below(last[Display(ret.path)].ty))
    => /\ IsOk(Convert(last[Display(ret.path)], ret.ty))
       /\ ret.res = Ok(Some(Convert(last[Display(ret.path)], ret.ty)[2]))

\* C8 witness: Ver1 3 was put and a get of Ver3 returned (3 + 1) * 2.
C8_Witness ==
    /\ ret.op = "get" /\ ret.ty = "Ver3" /\ ret.res = Ok(Some(Ver(3, 8)))
    /\ Display(ret.path) \in DOMAIN last
    /\ last[Display(ret.path)] = Ver(1, 3)

\* The step at which a put on an already present path returns Ok
OverwriteCommits ==
    /\ tx.op = "put" /\ tx.was # None
    /\ ret' # ret /\ ret'.op = "put" /\ IsOk(ret'.res)

\* C9: when a put on a present path returns Ok, the envelope at the path
\* has the version of the type put and the payload its save gives, whatever
\* version was stored before.
C9_OverwriteRetags ==
    [][ OverwriteCommits
        => /\ Readable(db', tx.path)
           /\ Envelope(db', tx.path).version = Version(tx.data.ty)
           /\ Ok(Envelope(db', tx.path).data) \in SchemaSave(tx.data) ]_vars

\* C9 witness: a put returned Ok on a path that held a higher version.
C9_Witness ==
    /\ ret.op = "put" /\ ret.pc = "commit" /\ IsOk(ret.res)
    /\ ret.was # None /\ ret.was[1] > Version(ret.ty)

\* C10: when a put on a present path returns Ok, the path keeps its
\* children set and every other key keeps its stored value.
C10_OverwriteFrame ==
    [][ OverwriteCommits
        => /\ DOMAIN db' = DOMAIN db
           /\ \A k \in DOMAIN db : k # Display(tx.path) => db'[k] = db[k]
           /\ Readable(db', tx.path)
           /\ Envelope(db', tx.path).children = Envelope(db, tx.path).children ]_vars

\* C10 witness: a put returned Ok on a present non-root path with a child.
C10_Witness ==
    /\ ret.op = "put" /\ ret.pc = "commit" /\ IsOk(ret.res) /\ ret.was # None
    /\ Len(ret.path) = 2
    /\ Readable(db, ret.path) /\ Envelope(db, ret.path).children # {}

\* C3: a read transaction running beside a put or delete never holds a torn
\* state: in its snapshot every present non-root path is listed by its
\* present parent and every listed name is present, and the children it
\* returns for a path are all present in that snapshot.
C3_ReaderNeverTorn ==
    /\ rd.op # "none" => (I2(rd.snap) /\ I3(rd.snap))
    /\ (rd.pc = "done" /\ rd.op = "children" /\ IsOk(rd.res) /\ rd.res[2] # None)
       => \A n \in rd.res[2][1].children :
              Display(Append(rd.path, n)) \in DOMAIN rd.snap

\* C3 witness: a reader has read the parent from its snapshot while a put
\* has written the parent envelope and not yet the child.
C3_Witness ==
    /\ rd.pc = "done" /\ rd.op = "children"
    /\ tx.op = "put" /\ tx.pc = "parent"
    /\ rd.path = Pop(tx.path)[1]
    /\ rd.snap = db /\ ~I3(tx.view)

\* C11: when a delete returns Ok, the key is absent, get with every type and
\* children return None at the path, and the parent's children set does not
\* hold the path's last component.
C11_DeleteRemoves ==
    [][ (ret' # ret /\ ret'.op = "del" /\ IsOk(ret'.res))
        => /\ Display(ret'.path) \notin DOMAIN db'
           /\ \A T \in Types : get(db', T, ret'.path) = Ok(None)
           /\ info(db', ret'.path) = Ok(None)
           /\ Readable(db', Pop(ret'.path)[1])
           /\ Pop(ret'.path)[2][1] \notin Envelope(db', Pop(ret'.path)[1]).children ]_vars

\* C11 witness: a delete of a grandchild of the root returned Ok.
C11_Witness ==
    /\ ret.op = "del" /\ ret.pc = "commit" /\ IsOk(ret.res) /\ Len(ret.path) = 3
    /\ Display(ret.path) \notin DOMAIN db

\* C12: once a connect has returned a handle the root key is present, and no
\* step removes the root key once it is present: not a put, not a delete,
\* not a delete of the root itself.
C12_RootStays ==
    [][ /\ open' > 0 => Display(RootPath) \in DOMAIN db'
        /\ Display(RootPath) \in DOMAIN db => Display(RootPath) \in DOMAIN db' ]_vars

\* C12 witness: a delete of the root, which has no children, has returned
\* and the root is there.
C12_Witness ==
    /\ ret.op = "del" /\ ret.path = RootPath
    /\ Readable(db, RootPath) /\ Envelope(db, RootPath).children = {}

C14_VersionPositive ==
    \A k \in DOMAIN db :
        Readable(db, Split(k)) /\ Envelope(db, Split(k)).version > 0

\* C14 witness: a put of a version-3 value has committed over a version-1
\* envelope and a put of a version-1 value has created a node.
C14_Witness ==
    /\ \E k \in DOMAIN db : Envelope(db, Split(k)).version = 3
    /\ \E k \in DOMAIN db : k # Display(RootPath) /\ Envelope(db, Split(k)).version = 1
    /\ ret.op = "put" /\ ret.pc = "commit" /\ ret.was = Some(1)

\* C15: a connect changes the store only when the root key is absent, and
\* then a connect that returns Ok has added the root key alone, holding the
\* envelope with no children, version 1 and a nil payload; a connect on a
\* store that has the root key, or one that fails, leaves every key as it was.
C15_ConnectWritesOnce ==
    [][ (ret' # ret /\ ret'.op = "connect")
        => IF Display(RootPath) \in DOMAIN db \/ ~IsOk(ret'.res) THEN db' = db
           ELSE /\ DOMAIN db' = DOMAIN db \cup {Display(RootPath)}
                /\ \A k \in DOMAIN db : db'[k] = db[k]
                /\ info(db', RootPath) = Ok(Some(DataWrapperV1({}, 1, <<"nil">>))) ]_vars

\* C15 witness: after a close, a connect returned Ok on a store whose root
\* has a child with a child of its own.
C15_Witness ==
    /\ ret.op = "connect" /\ ret.pc = "start" /\ IsOk(ret.res) /\ open = 1
    /\ \E k \in DOMAIN db : Len(Split(k)) = 3

\* C16 as stated: a connect on a store that holds the root key returns Ok,
\* whatever version and payload successful puts have left at the root.
C16_ConnectSucceeds ==
    [][ (ret' # ret /\ ret'.op = "connect" /\ Display(RootPath) \in DOMAIN db)
        => IsOk(ret'.res) ]_vars

\* C16 witness: a connect has returned an error on a store whose root
\* envelope reads back with version 2.
C16_Witness ==
    /\ ret.op = "connect" /\ ~IsOk(ret.res)
    /\ Readable(db, RootPath) /\ Envelope(db, RootPath).version = 2

\* |a - b|
Distance(a, b) == IF a >= b THEN a - b ELSE b - a

\* C17: a call load::<T>(v, p) on a chain with adjacent versions makes at
\* most |v - T::VERSION| recursive calls, enters and returns from frames at
\* most 2 * |v - T::VERSION| + 1 times in all, has a next step to take for
\* as long as it has not returned, and returns what load is defined to give.
C17_LoadTerminates ==
    rs.pc # "idle"
    => /\ rs.steps <= Distance(rs.version, Version(rs.T))
       /\ rs.moves <= 2 * Distance(rs.version, Version(rs.T)) + 1
       /\ Len(rs.stack) <= rs.steps + 1
       /\ rs.pc \in {"call", "return"} => ENABLED (LoadEnter \/ LoadReturn)
       /\ rs.pc = "done" => rs.res = load(rs.T, rs.version, rs.val)

\* C17 witness: load::<Ver3>(1, 3) has returned Ok after two recursive calls.
C17_Witness ==
    /\ rs.pc = "done" /\ rs.T = "Ver3" /\ rs.version = 1 /\ rs.steps = 2
    /\ rs.res = Ok(Ver(3, 8))

\* C18: while load::<T>(v, p) runs, SchemaSerde::load is called at most
\* once and no upgrade or downgrade is called before it; when the call
\* returns Ok, the payload was deserialized exactly once, by the type on T's
\* chain whose VERSION is v, and each of the recursive calls was followed by
\* one upgrade or downgrade.
C18_LoadsOnce ==
    rs.pc # "idle"
    => /\ rs.loads <= 1
       /\ rs.converts > 0 => rs.loads = 1
       /\ (rs.pc = "done" /\ IsOk(rs.res))
          => /\ rs.loads = 1
             /\ rs.loadedAt \in Above(rs.T) \cup Below(rs.T)
             /\ Version(rs.loadedAt) = rs.version
             /\ rs.converts = rs.steps

\* C18 witness: load::<Ver1>(3, 3) has returned Ok: one load, as Ver3, and
\* two downgrades.
C18_Witness ==
    /\ rs.pc = "done" /\ rs.T = "Ver1" /\ IsOk(rs.res)
    /\ rs.loads = 1 /\ rs.loadedAt = "Ver3" /\ rs.converts = 2

\* The versions of the types on T's chain
ChainVersions(T) == {Version(X) : X \in Above(T) \cup Below(T)}

\* A store whose root envelope has the given stored_version and payload
StoredAs(version, val) ==
    {EnginePut(<<>>, Display(RootPath), s[2]) :
        s \in SchemaSave(VersionWrapper(DataWrapperV1({}, version, val)))}

\* C19: when v is not the VERSION of a type on T's chain, load::<T>(v, p)
\* calls no load, upgrade or downgrade and returns InvalidSchema, and get of
\* T on an envelope stored with version v returns that error.
C19_OffChainFails ==
    (rs.pc # "idle" /\ rs.version \notin ChainVersions(rs.T))
    => /\ rs.loads = 0 /\ rs.converts = 0
       /\ rs.pc = "done"
          => /\ rs.res = Err("InvalidSchema")
             /\ \A store \in StoredAs(rs.version, rs.val) :
                    get(store, rs.T, RootPath) = Err("InvalidSchema")

\* C19 witness: load::<Ver1>(5, _) has returned InvalidSchema after walking
\* up to the end of the chain, and load::<Unit>(0, _) would stop at once.
C19_Witness ==
    /\ rs.pc = "done" /\ rs.T = "Ver1" /\ rs.version = 5 /\ rs.steps = 2
    /\ rs.res = Err("InvalidSchema")
    /\ EnterFrame("Unit", 0) = "end" /\ EnterFrame("Test2", U64Max) = "end"

\* The version tag of the VersionWrapper a stored record starts with
OuterTag(rec) == rec[2][1][2]

\* The stored_version field of the envelope inside a stored record
NestedVersion(rec) == rec[2][2][2][2][2]

\* C20: in every record of the store, written by put or by connect, the tag
\* of the outer version wrapper is 1, the version of the envelope format,
\* and the stored_version of the envelope inside is the VERSION of the type
\* last put at the key.
C20_OuterTagIsFormat ==
    \A k \in DOMAIN db :
        /\ OuterTag(db[k]) = Version("DataWrapperV1")
        /\ k \in DOMAIN last => NestedVersion(db[k]) = Version(last[k].ty)

\* C20 as stated: in every record of the store the tag of the outer version
\* wrapper equals the stored_version of the envelope inside it.
C20_TagsEqual ==
    \A k \in DOMAIN db : OuterTag(db[k]) = NestedVersion(db[k])

\* C20 witness: the store holds a record written by a put of a version-3
\* value, with outer tag 1 and stored_version 3, and it reads back.
C20_Witness ==
    \E k \in DOMAIN db :
        /\ OuterTag(db[k]) = 1 /\ NestedVersion(db[k]) = 3
        /\ get(db, "Ver3", Split(k)) = Ok(Some(Ver(3, 6)))

\* The record at path has an outer tag other than its nested stored_version
Mismatched(store, path) ==
    /\ Display(path) \in DOMAIN store
    /\ OuterTag(store[Display(path)]) # NestedVersion(store[Display(path)])

\* A record whose VersionWrapper tag is tag, around an empty envelope of
\* stored_version 1 with a nil payload
TaggedRecord(tag) ==
    <<"arr", << <<"int", tag>>, SaveDataWrapperV1(DataWrapperV1({}, 1, <<"nil">>), <<>>) >> >>

\* C21: a read of a record whose outer tag differs from its nested
\* stored_version succeeds: children returns the envelope, with that
\* stored_version, and get with the type last put returns the value put.
\* A read fails on the outer tag only when the tag is not 1, the version of
\* the envelope format, and then with InvalidSchema.
C21_MismatchReads ==
    /\ (ret.op = "children" /\ Mismatched(db, ret.path))
       => /\ IsOk(ret.res) /\ ret.res[2] # None
          /\ ret.res[2][1].version = NestedVersion(db[Display(ret.path)])
    /\ (ret.op = "get" /\ Mismatched(db, ret.path)
           /\ Display(ret.path) \in DOMAIN last
           /\ last[Display(ret.path)].ty = ret.ty)
       => ret.res = Ok(Some(last[Display(ret.path)]))
    /\ \A tag \in 0..U64Max :
          info(EnginePut(<<>>, Display(RootPath), TaggedRecord(tag)), RootPath)
            = IF tag = 1 THEN Ok(Some(DataWrapperV1({}, 1, <<"nil">>)))
              ELSE Err("InvalidSchema")

\* C21 as stated: a get or children of a record whose outer tag differs
\* from its nested stored_version returns InvalidFormat.
C21_MismatchRejected ==
    (ret.op \in {"get", "children"} /\ Mismatched(db, ret.path))
    => ret.res = Err("InvalidFormat")

\* C21 witness: children has returned the envelope of a record with outer
\* tag 1 and stored_version 2, and the record has a child.
C21_Witness ==
    /\ ret.op = "children" /\ IsOk(ret.res) /\ ret.res[2] # None
    /\ Mismatched(db, ret.path)
    /\ ret.res[2][1].version = 2 /\ ret.res[2][1].children # {}

\* The root is present and its children set is empty
RootChildless(store) ==
    Readable(store, RootPath) /\ Envelope(store, RootPath).children = {}

\* C22: a delete of the root, with the root's children set empty, fails
\* where the parent envelope is looked up, pop having returned the name
\* "@root" and the empty path as parent, and leaves the store unchanged.
C22_DeleteRootNoParent ==
    [][ (ret' # ret /\ ret'.op = "del" /\ ret'.path = RootPath /\ RootChildless(db))
        => (ret'.res = Err("Corruption") /\ db' = db) ]_vars

\* C22 as stated: a delete of the root, with the root's children set empty,
\* fails with InvalidPath and leaves the store unchanged.
C22_DeleteRootInvalidPath ==
    [][ (ret' # ret /\ ret'.op = "del" /\ ret'.path = RootPath /\ RootChildless(db))
        => (ret'.res = Err("InvalidPath") /\ db' = db) ]_vars

\* C22 witness: a delete of the childless root has failed at the lookup of
\* the parent envelope, after a child of the root was created and deleted.
C22_Witness ==
    /\ ret.op = "del" /\ ret.path = RootPath /\ ret.res = Err("Corruption")
    /\ RootChildless(db) /\ nw > 1

\* C23 as stated: a put at the root path returns InvalidPath and the root
\* envelope keeps its stored_version and payload.
C23_PutRootRejected ==
    [][ (ret' # ret /\ ret'.op = "put" /\ ret'.path = RootPath)
        => /\ ret'.res = Err("InvalidPath")
           /\ Envelope(db', RootPath).version = Envelope(db, RootPath).version
           /\ Envelope(db', RootPath).data = Envelope(db, RootPath).data ]_vars

\* C23 witness: a put of a version-2 value at the root has returned Ok and
\* the root envelope holds version 2 and the payload put, and its children.
C23_Witness ==
    /\ ret.op = "put" /\ ret.path = RootPath /\ IsOk(ret.res)
    /\ Readable(db, RootPath)
    /\ Envelope(db, RootPath).version = 2
    /\ Envelope(db, RootPath).data = <<"f64", 53>>
    /\ Envelope(db, RootPath).children # {}

\* C24: a delete of a path whose key is absent returns NotFound and leaves
\* the store unchanged, also when the key is absent because a delete of the
\* same path has just removed it.
C24_DeleteAbsentFails ==
    [][ (ret' # ret /\ ret'.op = "del" /\ Display(ret'.path) \notin DOMAIN db)
        => (ret'.res = Err("NotFound") /\ db' = db) ]_vars

\* C24 witness: a delete of a child of the root has returned NotFound on a
\* store that two committed writes, a put and a delete, have left with the
\* root alone.
C24_Witness ==
    /\ ret.op = "del" /\ ret.res = Err("NotFound") /\ Len(ret.path) = 2
    /\ nw = 2 /\ DOMAIN db = {Display(RootPath)} /\ RootChildless(db)
    /\ DOMAIN last = {Display(RootPath)} /\ last[Display(RootPath)] = Unit

\* C25: save of an envelope returns the array [children as strings, each
\* once; stored_version; payload]; load of what save returned gives the
\* envelope back; load of a three-element array with string children and an
\* unsigned version gives the set of the listed names, a repeated name once.
C25_EnvelopeRoundTrip ==
    /\ ev.op = "save" =>
        /\ IsOk(ev.res) /\ ev.res[2][1] = "arr" /\ Len(ev.res[2][2]) = 3
        /\ LET arr == ev.res[2][2]
           IN  /\ arr[1][1] = "arr"
               /\ \A i \in DOMAIN arr[1][2] : arr[1][2][i][1] = "str"
               /\ {arr[1][2][i][2] : i \in DOMAIN arr[1][2]} = ev.self.children
               /\ Len(arr[1][2]) = Cardinality(ev.self.children)
               /\ arr[2] = <<"int", ev.self.version>>
               /\ arr[3] = ev.self.data
    /\ (ev.op = "load" /\ ev.saved # None) => ev.res = Ok(ev.saved[1])
    /\ (/\ ev.op = "load" /\ ev.val[1] = "arr" /\ Len(ev.val[2]) = 3
        /\ ev.val[2][1][1] = "arr"
        /\ \A i \in DOMAIN ev.val[2][1][2] : ev.val[2][1][2][i][1] = "str"
        /\ ev.val[2][2][1] = "int" /\ ev.val[2][2][2] >= 0)
       => ev.res = Ok(DataWrapperV1(
                        {ev.val[2][1][2][i][2] : i \in DOMAIN ev.val[2][1][2]},
                        ev.val[2][2][2], ev.val[2][3]))

\* C25 witness: load has returned the envelope with two children and the
\* largest version that save had just been given.
C25_Witness ==
    /\ ev.op = "load"
    /\ ev.saved = Some(DataWrapperV1(Names, U64Max, <<"int", 3>>))
    /\ ev.res = Ok(DataWrapperV1(Names, U64Max, <<"int", 3>>))

\* C26: a path composed from the root and another such path with the same
\* display string have the same components; the display string of a path
\* composed from the root splits on '/' into its components, and the empty
\* path displays as "/".
C26_DisplayCanonical ==
    /\ (ev.op = "add" /\ ev.rooted /\ Display(ev.res) = Display(ev.other))
       => ev.res = ev.other
    /\ (ev.op = "to_string" /\ ev.self = <<>>) => ev.res = <<Slash>>
    /\ (ev.op = "to_string" /\ ev.rooted) => Split(ev.res) = ev.self

\* C26 witness: @root/a + "b" has the display string, and the components,
\* of a path of three components composed in an earlier call.
C26_Witness ==
    /\ ev.op = "add" /\ ev.rooted
    /\ ev.lhs = RootPath \o << <<"a">> >> /\ ev.rhs = <<"b">>
    /\ Display(ev.res) = Display(ev.other) /\ ev.res = ev.other

\* C27: pop returns the path without its last component and that component,
\* or the empty path and no name when the path is empty, and leaves the path
\* as it was; pop of base + n, n without '/', returns base and n.
C27_PopSplitsLast ==
    ev.op = "pop" =>
        /\ ev.self # <<>> =>
               ev.res = <<SubSeq(ev.self, 1, Len(ev.self) - 1), Some(ev.self[Len(ev.self)])>>
        /\ ev.self = <<>> => ev.res = << <<>>, None >>
        /\ ev.after = ev.self
        /\ (ev.added # None /\ \A i \in DOMAIN ev.added[1][2] : ev.added[1][2][i] # Slash)
           => ev.res = <<ev.added[1][1], Some(ev.added[1][2])>>

\* C27 witness: pop of @root + "b" has returned @root and "b".
C27_Witness ==
    /\ ev.op = "pop" /\ ev.added = Some(<<RootPath, <<"b">>>>)
    /\ ev.res = <<RootPath, Some(<<"b">>)>>

\* C28: base + suffix keeps base and appends one component per segment of
\* suffix, one more than suffix has '/', which joined by '/' give suffix
\* back (the empty suffix gives one empty component); and the display string
\* of the result is that of base, '/', suffix, for every base whose
\* components joined by '/' are not the empty string.
C28_ComposeAppendsSegments ==
    ev.op = "add" =>
        LET n == Len(ev.lhs)
            appended == SubSeq(ev.res, n + 1, Len(ev.res))
        IN  /\ SubSeq(ev.res, 1, n) = ev.lhs
            /\ Len(appended) = 1 + Cardinality({i \in DOMAIN ev.rhs : ev.rhs[i] = Slash})
            /\ Join(appended) = ev.rhs
            /\ Join(ev.lhs) # <<>> =>
                   Display(ev.res) = Display(ev.lhs) \o <<Slash>> \o ev.rhs

\* C28 as stated: the display string of base + suffix is that of base, '/',
\* suffix, for every base that is not empty.
C28_DisplayOfCompose ==
    (ev.op = "add" /\ ev.lhs # <<>>)
        => Display(ev.res) = Display(ev.lhs) \o <<Slash>> \o ev.rhs

\* C28 witness: @root + "/a" has three components, the second empty, and
\* displays as "@root//a".
C28_Witness ==
    /\ ev.op = "add" /\ ev.lhs = RootPath /\ ev.rhs = <<Slash, "a">>
    /\ ev.res = <<RootName, <<>>, <<"a">>>>
    /\ Display(ev.res) = RootName \o <<Slash, Slash, "a">>

\* C29: non_auto of a typed string s is Current for ".", Up for "..",
\* otherwise Absolute when s starts with '/' or with "@root" and Relative
\* when it does not, in both cases with the segments of s split on '/'.
C29_ClassifiesTyped ==
    (ev.op = "non_auto" /\ ev.self[1] = "Auto") =>
        LET x == ev.self[2]
        IN  ev.res = IF x = <<".">> THEN Current
                     ELSE IF x = <<".", ".">> THEN Up
                     ELSE IF x # <<>> /\ x[1] = Slash THEN Absolute(Split(x))
                     ELSE IF Len(x) >= 5 /\ SubSeq(x, 1, 5) = <<"@", "r", "o", "o", "t">>
                          THEN Absolute(Split(x))
                     ELSE Relative(Split(x))

\* C29 witness: the typed string "@root." has been classified Absolute with
\* the single component "@root.".
C29_Witness ==
    /\ ev.op = "non_auto" /\ ev.self = Auto(RootName \o <<".">>)
    /\ ev.res = Absolute(<< RootName \o <<".">> >>)

\* C30: when a put that creates a node, or a delete, is about to touch the
\* child key, its transaction already holds the parent envelope with the
\* name added (put) or removed (delete) while the child key is still absent
\* (put) or present (delete), the committed store still has the parent as it
\* was before the call, and the step on the child key commits nothing.
C30_ParentBeforeChild ==
    [][ (tx # NoTx /\ tx.pc = "parent" /\ tx' # tx) =>
            LET parent_path == Pop(tx.path)[1]
                name == Pop(tx.path)[2][1]
                key == Display(tx.path)
            IN  /\ Readable(tx.view, parent_path) /\ Readable(db, parent_path)
                /\ db' = db /\ nw' = nw
                /\ tx.op \in {"put", "del"}
                /\ tx.op = "put" =>
                       /\ name \in Envelope(tx.view, parent_path).children
                       /\ name \notin Envelope(db, parent_path).children
                       /\ key \notin DOMAIN tx.view
                       /\ tx' # NoTx => /\ key \in DOMAIN tx'.view
                                        /\ tx'.view[Display(parent_path)]
                                             = tx.view[Display(parent_path)]
                /\ tx.op = "del" =>
                       /\ name \notin Envelope(tx.view, parent_path).children
                       /\ name \in Envelope(db, parent_path).children
                       /\ key \in DOMAIN tx.view
                       /\ tx' # NoTx => /\ key \notin DOMAIN tx'.view
                                        /\ tx'.view[Display(parent_path)]
                                             = tx.view[Display(parent_path)]
      ]_vars

\* C30 witness: a delete of a node two levels under the root has written its
\* parent and deleted the key in its transaction, and nothing is committed:
\* the store still has the key and the parent still lists the name.
C30_Witness ==
    /\ tx # NoTx /\ tx.op = "del" /\ tx.pc = "commit" /\ Len(tx.path) = 3
    /\ Display(tx.path) \notin DOMAIN tx.view
    /\ Pop(tx.path)[2][1] \notin Envelope(tx.view, Pop(tx.path)[1]).children
    /\ Display(tx.path) \in DOMAIN db
    /\ Pop(tx.path)[2][1] \in Envelope(db, Pop(tx.path)[1]).children

\* C31: the commit of a put that creates a node, or of a delete, changes
\* only the node's key and the children set of its parent: every other key
\* keeps its value, the parent keeps its stored_version and payload and
\* gains or loses exactly the name, and the created node has no children.
C31_FrameOfCreateDelete ==
    [][ (/\ tx # NoTx /\ tx.pc = "commit" /\ tx' = NoTx /\ ret'.res = Ok(None)
         /\ (tx.op = "del" \/ (tx.op = "put" /\ tx.was = None))) =>
            LET parent_path == Pop(tx.path)[1]
                name == Pop(tx.path)[2][1]
                key == Display(tx.path)
                pkey == Display(parent_path)
                before == Envelope(db, parent_path)
                after == Envelope(db', parent_path)
            IN  /\ \A k \in (DOMAIN db \cup DOMAIN db') \ {key, pkey} :
                       k \in DOMAIN db /\ k \in DOMAIN db' /\ db'[k] = db[k]
                /\ Readable(db, parent_path) /\ Readable(db', parent_path)
                /\ after.version = before.version
                /\ after.data = before.data
                /\ tx.op = "put" =>
                       /\ key \notin DOMAIN db
                       /\ after.children = before.children \cup {name}
                       /\ Readable(db', tx.path)
                       /\ Envelope(db', tx.path).children = {}
                /\ tx.op = "del" =>
                       /\ key \in DOMAIN db /\ key \notin DOMAIN db'
                       /\ after.children = before.children \ {name}
      ]_vars

\* C31 witness: a put has created a node two levels under the root, under a
\* parent that keeps its payload and its version 2 and now lists the node.
C31_Witness ==
    /\ ret.op = "put" /\ ret.pc = "commit" /\ ret.res = Ok(None) /\ ret.was = None
    /\ Len(ret.path) = 3
    /\ Readable(db, ret.path) /\ Envelope(db, ret.path).children = {}
    /\ Envelope(db, Pop(ret.path)[1]).version = 2
    /\ Envelope(db, Pop(ret.path)[1]).data = <<"f64", 53>>
    /\ Envelope(db, Pop(ret.path)[1]).children = {Pop(ret.path)[2][1]}

\* What a committed put or del of path leaves in the store: the key and the
\* name in the parent's children set, both there or both gone
Effect(op, path, store) ==
    LET parent_path == Pop(path)[1]
        name == Pop(path)[2][1]
    IN  /\ Readable(store, parent_path)
        /\ IF op = "put"
           THEN /\ Display(path) \in DOMAIN store
                /\ name \in Envelope(store, parent_path).children
           ELSE /\ Display(path) \notin DOMAIN store
                /\ name \notin Envelope(store, parent_path).children

\* Two different children of one parent
Siblings(p, q) == Len(p) >= 2 /\ Len(q) >= 2 /\ p # q /\ Pop(p)[1] = Pop(q)[1]

\* C32: when a put or del of one child has committed while a put or del of
\* another child of the same parent waited for the writer lock, and that
\* second call has committed too, the store shows both: each child is
\* present and listed by the parent, or absent and not listed, and I2 and
\* I3 hold.
C32_NoLostUpdate ==
    (/\ wait.st = "running" /\ wait.firstDone /\ tx = NoTx
     /\ wait.op \in {"put", "del"} /\ wait.first.op \in {"put", "del"}
     /\ ret.op = wait.op /\ ret.pc = "commit" /\ ret.res = Ok(None)
     /\ Siblings(wait.first.path, wait.path))
    => /\ Effect(wait.first.op, wait.first.path, db)
       /\ Effect(wait.op, wait.path, db)
       /\ I2(db) /\ I3(db)

\* C32 witness: a put of @root/a/b that asked for the lock when neither
\* @root/a/a nor @root/a/b was there, and waited while a put of @root/a/a
\* committed, has committed too, and @root/a lists both.
C32_Witness ==
    /\ wait.st = "running" /\ wait.firstDone /\ tx = NoTx
    /\ wait.op = "put" /\ wait.first.op = "put"
    /\ wait.first.path = RootPath \o << <<"a">>, <<"a">> >>
    /\ wait.path = RootPath \o << <<"a">>, <<"b">> >>
    /\ wait.snap = [k \in DOMAIN db \ {Display(wait.path), Display(wait.first.path)} |-> wait.snap[k]]
    /\ ret.op = "put" /\ ret.pc = "commit" /\ ret.res = Ok(None)
    /\ Envelope(db, RootPath \o << <<"a">> >>).children = Names

\* C33: a connect made while another handle is open, or right behind another
\* connect, and that finds the root present returns Ok with a new handle and
\* leaves the store as it is; a connect commits a root envelope only when
\* none is there.
C33_ConcurrentConnects ==
    [][ /\ (/\ ret' # ret /\ ret'.op = "connect" /\ ret'.pc = "start"
            /\ Display(RootPath) \in DOMAIN db
            /\ (open > 0 \/ (wait.op = "connect" /\ wait.first.op = "connect")))
           => (ret'.res = Ok(None) /\ db' = db /\ open' = open + 1)
        /\ (ret' # ret /\ ret'.op = "connect" /\ ret'.pc = "commit" /\ ret'.res = Ok(None))
           => Display(RootPath) \notin DOMAIN db
      ]_vars

\* C33 witness: with one handle open, a root that lists a child and holds a
\* version-2 payload, a second connect has returned an error.
C33_Witness ==
    /\ ret.op = "connect" /\ ret.res[1] = "err" /\ open = 1
    /\ Readable(db, RootPath)
    /\ Envelope(db, RootPath).version = 2
    /\ Envelope(db, RootPath).children # {}

\* C34: a get or a children call, whether it returns a value as stored, a
\* converted value, nothing or an error, leaves every key of the store with
\* the value it had.
C34_ReadsDoNotWrite ==
    [][ (ret' # ret /\ ret'.op \in {"get", "children"}) => (db' = db /\ nw' = nw) ]_vars

\* C34 witness: a get of Test1 has returned the value downgraded from a
\* stored Test2, and the envelope at the path still has version 2 and the
\* float payload.
C34_Witness ==
    /\ ret.op = "get" /\ ret.ty = "Test1" /\ IsOk(ret.res) /\ ret.res[2] # None
    /\ Readable(db, ret.path)
    /\ Envelope(db, ret.path).version = 2
    /\ Envelope(db, ret.path).data = <<"f64", 53>>

\* path is present and childless in store, its parent is present, and the
\* parent's children set does not hold path's last component
Unlisted(store, path) ==
    /\ Len(path) > 0
    /\ Readable(store, path) /\ Envelope(store, path).children = {}
    /\ Readable(store, Pop(path)[1])
    /\ Pop(path)[2][1] \notin Envelope(store, Pop(path)[1]).children

\* C35: a delete of a present, childless path whose present parent does not
\* list its last component fails only if the engine fails: it goes on to
\* write the parent, and when it returns Ok the key is gone, the parent
\* envelope is what it was and every other key keeps its value.
C35_UnlistedDeleteSucceeds ==
    [][ /\ (ret' # ret /\ ret'.op = "del" /\ ret'.pc = "start" /\ Unlisted(db, ret'.path))
           => ret'.res = Err("EngineError")
        /\ \A path \in SlashPaths :
               Unlisted(db, path) => \E o \in DelFirst(db, path) : o[1] = "more"
        /\ (/\ tx # NoTx /\ tx.op = "del" /\ tx.pc = "commit" /\ Unlisted(db, tx.path)
            /\ tx' = NoTx /\ ret'.res = Ok(None))
           => /\ DOMAIN db' = DOMAIN db \ {Display(tx.path)}
              /\ Envelope(db', Pop(tx.path)[1]) = Envelope(db, Pop(tx.path)[1])
              /\ \A k \in DOMAIN db' : k # Display(Pop(tx.path)[1]) => db'[k] = db[k]
      ]_vars

\* C35 witness: a delete of the path with components "@root" and "a/b" has
\* returned Ok and removed the key "@root/a/b", which the root never listed
\* and which "@root/a" still lists as its child b.
C35_Witness ==
    /\ ret.op = "del" /\ ret.pc = "commit" /\ ret.res = Ok(None)
    /\ ret.path = <<RootName, <<"a", Slash, "b">>>>
    /\ Display(ret.path) \notin DOMAIN db
    /\ Envelope(db, RootPath).children = {<<"a">>}
    /\ Envelope(db, RootPath \o << <<"a">> >>).children = {<<"b">>}

\* The stores a put of v at P that returns Ok, followed by a delete of P
\* that returns Ok, can leave when they start from store
PutThenDelete(store, P, v) ==
    LET s1 == {o[2] : o \in {x \in PutFirst(store, P, v) : x[1] = "more"}}
        s2 == UNION {{o[2] : o \in {x \in PutSecond(t, P, v) : IsOk(x)}} : t \in s1}
        s3 == UNION {{o[2] : o \in {x \in DelFirst(t, P) : x[1] = "more"}} : t \in s2}
    IN  UNION {{o[2] : o \in {x \in DelSecond(t, P) : IsOk(x)}} : t \in s3}

\* The two stores hold the same keys with the same envelopes
SameEnvelopes(s, t) ==
    /\ DOMAIN s = DOMAIN t
    /\ \A k \in DOMAIN s : info(s, Split(k)) = info(t, Split(k))

\* P is absent from the store and its parent is present
Creatable(store, P) ==
    /\ Len(P) > 0
    /\ Display(P) \notin DOMAIN store
    /\ Readable(store, Pop(P)[1])

C37_InvariantsOnAllPaths == I2(db) /\ I3(db)

\* C37 witness: a put of the path with components "@root" and "a/b" has
\* returned Ok: the key "@root/a/b" is present and "@root/a" is not.
C37_Witness ==
    /\ ret.op = "put" /\ ret.pc = "commit" /\ ret.res = Ok(None)
    /\ ret.path = <<RootName, <<"a", Slash, "b">>>>
    /\ Display(RootPath \o << <<"a">>, <<"b">> >>) \in DOMAIN db
    /\ Display(RootPath \o << <<"a">> >>) \notin DOMAIN db
    /\ ~I2(db)

\* C38: whatever PrevVersion and NextVersion links are declared, a call of
\* load::<T>(v, p) terminates: since a frame's arm depends only on its type
\* and on v, which every frame is handed unchanged, the call never has two
\* frames of the same type on its stack.
C38_NoFrameTwice ==
    \A i, j \in DOMAIN rs.stack : rs.stack[i] = rs.stack[j] => i = j

\* C38 witness: load::<Gap3>(2, p) has called load::<Gap1>(2, p), which is
\* calling load::<Gap3>(2, p) again.
C38_Witness ==
    /\ rs.pc = "call" /\ rs.T = "Gap3" /\ rs.version = 2
    /\ rs.stack = <<"Gap3", "Gap1", "Gap3">>

\* C39: a cd whose target cannot be listed returns an error and leaves the
\* browser's path, selection index and file list as they were; a cd that
\* succeeds stands on a path that can be listed with the selection index 0;
\* Up at a path of one component leaves the path as it was; the path is
\* never empty; cd writes nothing to the store.
C39_CdRestoresOnError ==
    [][(fb' # fb /\ fb'.cmd = "cd") =>
          /\ ~IsOk(fb'.res) =>
                /\ fb'.path = fb.path
                /\ fb'.selected = fb.selected
                /\ fb'.files = fb.files
          /\ IsOk(fb'.res) =>
                /\ fb'.selected = 0
                /\ Readable(db, fb'.path)
          /\ ~Readable(db, fb'.path) => ~IsOk(fb'.res)
          /\ (non_auto(fb'.arg) = Up /\ Len(fb.path) = 1) => fb'.path = fb.path
          /\ fb'.path # <<>>
          /\ db' = db]_vars

\* A cd from a selection index above 0 failed on an absent node
C39_Witness ==
    /\ fb.cmd = "cd"
    /\ fb.res = Err("NoSuchNode")
    /\ fb.selected > 0
    /\ fb.path # RootPath

\* C40: once the App is connected the selection index is an index into the
\* file list shown.
C40_SelectionInRange == fb.st = "up" => fb.selected < Len(fb.files)

\* rm of the last entry shown left the selection index past the list
C40_Witness ==
    /\ fb.cmd = "rm"
    /\ IsOk(fb.res)
    /\ fb.selected = Len(fb.files)

====
